---- MODULE Spec2Model ----
(***************************************************************************)
(* Local-first document store of the character / message / comment view:   *)
(* two local PouchDB collections (characters+comments, messages), the view *)
(* `characters`, the asynchronous handlers that mutate them and the live   *)
(* replication sessions.  Every handler is split at its awaits: one action *)
(* per storage call, so that handlers interleave exactly where the event   *)
(* loop lets them.                                                         *)
(***************************************************************************)
EXTENDS Integers, Sequences, FiniteSets, TLC

\* ------------------------------------------------------------------ bounds
NTasks == 2          \* handler invocations per behaviour
MaxRev == 4          \* highest revision generation a replicated write may produce
MaxTime == 2         \* clock values iso() can return
MaxSessions == 3     \* replication sessions opened per collection
MaxChanges == 1      \* 'change' events a session emits ahead of their delivery
MaxPage == 3         \* highest page of the top messages the user goes to
NMessages == 25      \* messages stored when the pages are turned

\* ------------------------------------------------------- program constants
maxRetries == 3

TOP_PAGE_SIZE == 10
SEARCH_LIMIT == 500

\* ----------------------------------------------------------------- strings
\* A string is a sequence of code points: 32 is ' ', 65 is 'A', 97 is 'a'.
\* The strings typed into the forms: "", " ", "A", "a", " A".
Strs == {<<>>, <<32>>, <<65>>, <<97>>, <<32, 65>>}

toLowerCase(s) == [i \in DOMAIN s |-> IF s[i] \in 65..90 THEN s[i] + 32 ELSE s[i]]

RECURSIVE trimStart(_)
trimStart(s) == IF s # <<>> /\ Head(s) = 32 THEN trimStart(Tail(s)) ELSE s

RECURSIVE trimEnd(_)
trimEnd(s) ==
  IF s # <<>> /\ s[Len(s)] = 32 THEN trimEnd(SubSeq(s, 1, Len(s) - 1)) ELSE s

trim(s) == trimEnd(trimStart(s))

Max(a, b) == IF a >= b THEN a ELSE b

\* a < b for two strings: the comparison of their code units from the
\* left, a proper prefix coming first.
RECURSIVE StrLess(_, _)
StrLess(a, b) ==
  IF b = <<>> THEN FALSE
  ELSE IF a = <<>> THEN TRUE
  ELSE IF Head(a) # Head(b) THEN Head(a) < Head(b)
  ELSE StrLess(Tail(a), Tail(b))

StrLeq(a, b) == a = b \/ StrLess(a, b)

\* --------------------------------------------------------------- documents
TimeStamps == 1..MaxTime

NoId == <<"none", 0>>
CharId(t) == <<"character", t>>
MsgId(t) == <<"message", t>>
CmtId(t) == <<"comment", t>>

CharDbIds == {"character", "comment"} \X TimeStamps
MsgDbIds == {"message"} \X TimeStamps

\* One record shape for the three document types; a field a type does not
\* have keeps the value it has here.  _rev = 0 is "no such document".
NoDoc ==
  [_id |-> NoId, _rev |-> 0, _deleted |-> FALSE, type |-> "none",
   name |-> "", age |-> 0, affiliation |-> <<>>, affiliationLower |-> <<>>,
   lightsaber |-> FALSE, likes |-> 0,
   characterId |-> NoId, messageId |-> NoId,
   text |-> <<>>, textLower |-> <<>>, createdAt |-> 0,
   media |-> FALSE, mediaContentType |-> "none"]

CharacterDoc(t, name, age, aff, saber, likes) ==
  [NoDoc EXCEPT !._id = CharId(t), !.type = "character", !.name = name,
                !.age = age, !.affiliation = aff,
                !.affiliationLower = toLowerCase(aff),
                !.lightsaber = saber, !.likes = likes]

MessageDoc(t, cid, text, at) ==
  [NoDoc EXCEPT !._id = MsgId(t), !.type = "message", !.characterId = cid,
                !.text = text, !.textLower = toLowerCase(text),
                !.createdAt = at, !.likes = 0]

CommentDoc(t, mid, text, at) ==
  [NoDoc EXCEPT !._id = CmtId(t), !.type = "comment", !.messageId = mid,
                !.text = text, !.createdAt = at]

\* ------------------------------------------------- the local store contract
\* A database maps every id to its winning revision.
Live(d) == d._rev > 0 /\ ~d._deleted

\* get: the stored revision, or 404 for a missing or deleted document.
GetStatus(db, id) == IF Live(db[id]) THEN 200 ELSE 404

\* A store where the last write wins, whatever revision is handed in.
PutStatusForced(db, doc) == 201

\* put / remove / putAttachment: 409 unless the revision handed in is the
\* stored one (a create hands in none and needs the id to be free).
PutStatus(db, doc) ==
  LET cur == db[doc._id] IN
  IF Live(cur) THEN (IF doc._rev = cur._rev THEN 201 ELSE 409)
  ELSE (IF doc._rev = 0 THEN 201 ELSE 409)

PutDoc(db, doc) ==
  [db EXCEPT ![doc._id] = [doc EXCEPT !._rev = db[doc._id]._rev + 1]]

\* bulkDocs: every document is written on its own; a stale one is skipped
\* and reported in the answer, which raises nothing.
BulkDocs(db, docs) ==
  [i \in DOMAIN db |->
     IF \E d \in docs : d._id = i /\ PutStatus(db, d) = 201
     THEN LET d == CHOOSE d \in docs : d._id = i /\ PutStatus(db, d) = 201
          IN [d EXCEPT !._rev = db[i]._rev + 1]
     ELSE db[i]]

\* { ...d, _deleted: true }, which is also what remove(d) writes.
tombstone(d) == [d EXCEPT !._deleted = TRUE]

\* find with a selector, which gives for each of its fields the values it
\* admits ($eq, $in): the live documents that satisfy it.
Find(db, selector) ==
  {db[i] : i \in {j \in DOMAIN db :
                     /\ Live(db[j])
                     /\ \A f \in DOMAIN selector : db[j][f] \in selector[f]}}

\* The value a sort on field `key` compares: ids compare as their time.
KeyOf(d, key) == IF key = "_id" THEN d._id[2] ELSE d[key]

\* d comes before e in a sort on field `key`, ties in the order of the ids.
Before(d, e, key, desc) ==
  \/ IF desc THEN KeyOf(d, key) > KeyOf(e, key)
             ELSE KeyOf(d, key) < KeyOf(e, key)
  \/ /\ KeyOf(d, key) = KeyOf(e, key)
     /\ IF desc THEN d._id[2] > e._id[2] ELSE d._id[2] < e._id[2]

\* A set of documents as the sequence a sort on field `key` (then _id) gives.
SortBy(S, key, desc) ==
  [r \in 1..Cardinality(S) |->
     CHOOSE d \in S :
       Cardinality({e \in S : Before(e, d, key, desc)}) = r - 1]

\* ------------------------------------------------------------------- state
VARIABLES
  storageCharacters,    \* local collection of characters and comments
  storageMessages,      \* local collection of messages
  characters,           \* the view: one entry per character shown
  isOnline,             \* the online / offline toggle
  syncChars, syncMsgs,  \* handle of the live session of each collection, 0 = null
  sessions,             \* every replication session opened so far, per collection
  initPc,               \* position of initDatabase
  editingIndex, editingCharacter,
  editingMessageIndex, editingMessageText,
  editingCommentIndex, editingCommentText,
  now,                  \* the clock iso() reads
  task,                 \* the handler invocations, each at its await
  initial,              \* history: the two stores as they were at the start
  pendingCharIds,       \* ids of the characters a sync change made dirty
  pendingMsgIds,        \* ids of the messages a sync change made dirty
  pendingNeedFullReload,
  syncRefreshTimer,     \* TRUE while it holds the id of a timeout
  timeouts,             \* the timeouts of the refresh callback still armed
  changes,              \* 'change' events the sessions have yet to deliver
  sortByLikes, topMessagesPage,
  orderByLikesForChar,  \* the characters whose messages are ordered by likes
  indexes,              \* per store, how far createIndexes...() has come
  visibleComments,      \* the keys charIndex-msgIndex whose flag is true
  messageMediaUrl,      \* per message id, the object URL held for it
  characterMediaUrl,    \* per character id, the object URL held for it
  objectUrls            \* the object URLs created and not revoked

storeVars == <<storageCharacters, storageMessages>>
syncVars == <<isOnline, syncChars, syncMsgs, sessions, initPc>>
editCharVars == <<editingIndex, editingCharacter>>
editMsgVars == <<editingMessageIndex, editingMessageText>>
editCmtVars == <<editingCommentIndex, editingCommentText>>
editVars == <<editCharVars, editMsgVars, editCmtVars>>
pendingVars == <<pendingCharIds, pendingMsgIds, pendingNeedFullReload>>
refreshVars == <<pendingVars, syncRefreshTimer, timeouts, changes>>
queryVars == <<sortByLikes, topMessagesPage, orderByLikesForChar, indexes>>
mediaVars == <<messageMediaUrl, characterMediaUrl, objectUrls>>
uiVars == <<visibleComments, mediaVars>>
vars == <<storeVars, characters, syncVars, editVars, now, task, initial, uiVars, refreshVars, queryVars>>

\* The handler invocations of the user; slot 0 is the fetchData() of
\* initDatabase.
Tasks == 1..NTasks
AllTasks == 0..NTasks

\* ---------------------------------------------------------------- the view
\* An array slot never assigned (a hole a write past the end leaves).
Hole == [docId |-> NoId, docRev |-> 0,
         data |-> [name |-> "", age |-> 0, affiliation |-> <<>>,
                   lightsaber |-> FALSE, likes |-> 0, messages |-> <<>>]]

mapCharacterDoc(d) ==
  [docId |-> d._id, docRev |-> d._rev,
   data |-> [name |-> d.name, age |-> d.age, affiliation |-> d.affiliation,
             lightsaber |-> d.lightsaber, likes |-> d.likes,
             messages |-> <<>>]]

\* characters.value[i], 1-based; undefined (FALSE) for a hole or past the end.
HasEntry(view, i) == i \in 1..Len(view) /\ view[i] # Hole

\* characters.value[i] = e, which extends the array when i is past its end.
SetEntry(view, i, e) ==
  [k \in 1..Max(Len(view), i) |->
     IF k = i THEN e ELSE IF k <= Len(view) THEN view[k] ELSE Hole]

\* characters.value.splice(i, 1)
Splice(view, i) ==
  IF i \in 1..Len(view)
  THEN [k \in 1..(Len(view) - 1) |-> IF k < i THEN view[k] ELSE view[k + 1]]
  ELSE view

HasMessage(view, i, j) ==
  HasEntry(view, i) /\ j \in 1..Len(view[i].data.messages)

HasComment(view, i, j, k) ==
  HasMessage(view, i, j) /\ k \in 1..Len(view[i].data.messages[j].comments)

MessageUI(m, cs) ==
  [id |-> m._id, text |-> m.text, createdAt |-> m.createdAt,
   likes |-> m.likes, comments |-> cs]

CommentUI(c) == [id |-> c._id, text |-> c.text, createdAt |-> c.createdAt]

\* ------------------------------------------------------- the media URLs
\* No URL: the entry of the table is absent or null.
NoUrl == <<NoId, 0>>

\* URL.createObjectURL(blob) for the blob of `id`: a handle no live URL
\* has.  A revoked handle is referred to by nothing, so its name is free.
createObjectURL(id, urls) ==
  <<id, CHOOSE k \in 1..(Cardinality(urls) + 1) :
          /\ <<id, k>> \notin urls
          /\ \A j \in 1..(k - 1) : <<id, j>> \in urls>>

\* getAttachment(id, 'media') answers with the blob; 404 for a document
\* that is missing, deleted or has no such attachment.
HasBlob(db, id) == Live(db[id]) /\ db[id].media

\* loadMessageMediaUrl / loadCharacterMediaUrl once getAttachment has
\* answered: with a blob the URL held for the id is revoked and a new one
\* is created; the catch of a 404 (or of any error) leaves the table alone.
loadMediaUrl(table, urls, db, id) ==
  IF HasBlob(db, id)
  THEN [table |-> [table EXCEPT ![id] = createObjectURL(id, urls \ {table[id]})],
        urls |-> (urls \ {table[id]})
                   \cup {createObjectURL(id, urls \ {table[id]})}]
  ELSE [table |-> table, urls |-> urls]

\* if (url[id]) { URL.revokeObjectURL(url[id]); url[id] = null }
revokeMediaUrl(table, urls, id) ==
  [table |-> [table EXCEPT ![id] = NoUrl], urls |-> urls \ {table[id]}]

\* characterMediaUrl or messageMediaUrl, by the collection of the owner.
MediaTable(name) ==
  IF name = "chars" THEN characterMediaUrl ELSE messageMediaUrl

\* The table of collection `name` and the live URLs become those of r.
SetMedia(name, r) ==
  /\ objectUrls' = r.urls
  /\ IF name = "chars"
     THEN characterMediaUrl' = r.table /\ UNCHANGED messageMediaUrl
     ELSE messageMediaUrl' = r.table /\ UNCHANGED characterMediaUrl

\* The media of the view a full fetchData() has loaded: a URL for every
\* character and for every message of a character that has a blob.
MediaLoaded ==
  /\ characterMediaUrl =
       [i \in CharDbIds |->
          IF HasBlob(storageCharacters, i)
             /\ storageCharacters[i].type = "character"
          THEN <<i, 1>> ELSE NoUrl]
  /\ messageMediaUrl =
       [i \in MsgDbIds |->
          IF /\ HasBlob(storageMessages, i)
             /\ \E c \in Find(storageCharacters, [type |-> {"character"}]) :
                  c._id = storageMessages[i].characterId
          THEN <<i, 1>> ELSE NoUrl]
  /\ objectUrls = ({characterMediaUrl[i] : i \in CharDbIds}
                     \cup {messageMediaUrl[i] : i \in MsgDbIds}) \ {NoUrl}

\* Nothing has been loaded yet.
MediaEmpty ==
  /\ characterMediaUrl = [i \in CharDbIds |-> NoUrl]
  /\ messageMediaUrl = [i \in MsgDbIds |-> NoUrl]
  /\ objectUrls = {}

\* --------------------------------------------------------- handler records
IdleTask ==
  [op |-> "idle", pc |-> "idle",
   charIndex |-> 0, msgIndex |-> 0, commentIndex |-> 0,
   db |-> "none", id |-> NoId,
   attempt |-> 0, lastError |-> 0, gets |-> 0, puts |-> 0,
   latestDoc |-> NoDoc, mergedDoc |-> NoDoc, updated |-> NoDoc,
   result |-> "pending",
   lmCharId |-> NoId, lmIndex |-> 0, lmMsgs |-> <<>>, lmUi |-> <<>>,
   lmByLikes |-> FALSE,
   msgs |-> {}, cmts |-> {}, fileType |-> "",
   fetch |-> "none", skip |-> 0, charMap |-> <<>>,
   charIds |-> <<>>, msgIds |-> <<>>, rcIdx |-> 0, q |-> <<>>,
   mediaIds |-> <<>>, confirm |-> TRUE, issued |-> <<>>]

Db(name) == IF name = "chars" THEN storageCharacters ELSE storageMessages

\* The store `name` becomes `v`; the other one is left alone.
SetDb(name, v) ==
  IF name = "chars"
  THEN storageCharacters' = v /\ UNCHANGED storageMessages
  ELSE storageMessages' = v /\ UNCHANGED storageCharacters

\* A handler can be invoked in the next free slot.
CanStart(p) ==
  /\ task[p].op = "idle"
  /\ \A q \in Tasks : q < p => task[q].op # "idle"

\* ------------------------------------------------------ the merge functions
\* A like that counts twice.
likeTwice(latest) == [latest EXCEPT !.likes = latest.likes + 2]

\* likeCharacter / likeMessage: latest.likes = (latest.likes ?? 0) + 1
likeMerge(latest) == [latest EXCEPT !.likes = latest.likes + 1]

\* A merge that takes the likes of the form as they are.
saveEditFormLikes(latest, e) ==
  [latest EXCEPT !.name = e.name, !.age = e.age,
                 !.affiliation = e.affiliation,
                 !.affiliationLower = toLowerCase(e.affiliation),
                 !.lightsaber = e.lightsaber,
                 !.likes = e.likes]

\* A merge that leaves the lowercase affiliation as it was stored.
saveEditStaleLower(latest, e) ==
  [latest EXCEPT !.name = e.name, !.age = e.age,
                 !.affiliation = e.affiliation,
                 !.lightsaber = e.lightsaber,
                 !.likes = Max(latest.likes, e.likes)]

\* saveEdit: the form's fields over the latest revision, likes by max.
saveEditMerge(latest, e) ==
  [latest EXCEPT !.name = e.name, !.age = e.age,
                 !.affiliation = e.affiliation,
                 !.affiliationLower = toLowerCase(e.affiliation),
                 !.lightsaber = e.lightsaber,
                 !.likes = Max(latest.likes, e.likes)]

\* A merge that writes the message as the view shows it under the new text:
\* the likes of the copy on screen replace the stored ones.
saveEditMessageFromView(latest, text) ==
  LET shown == {characters[i].data.messages[j] :
                  <<i, j>> \in {<<i, j>> \in (1..Len(characters)) \X (1..MaxTime) :
                                  /\ j <= Len(characters[i].data.messages)
                                  /\ characters[i].data.messages[j].id = latest._id}}
  IN [latest EXCEPT !.text = text, !.textLower = toLowerCase(text),
                    !.likes = IF shown = {} THEN latest.likes
                              ELSE (CHOOSE m \in shown : TRUE).likes]

saveEditMessageMerge(latest, text) ==
  [latest EXCEPT !.text = text, !.textLower = toLowerCase(text)]

saveEditCommentMerge(latest, text) == [latest EXCEPT !.text = text]

\* mergeFn of the handler `op`, reading the form state of this instant.
Merge(op, latest) ==
  CASE op = "likeCharacter" -> likeMerge(latest)
    [] op = "likeMessage" -> likeMerge(latest)
    [] op = "saveEdit" -> saveEditMerge(latest, editingCharacter[1])
    [] op = "saveEditMessage" -> saveEditMessageMerge(latest, editingMessageText)
    [] op = "saveEditComment" -> saveEditCommentMerge(latest, editingCommentText)

\* editingCharacter.value!.name on a form closed meanwhile raises a TypeError.
MergeThrows(op) == op = "saveEdit" /\ editingCharacter = <<>>

\* A catch that gives up on every error, conflicts included.
NeverRetry(status) == FALSE

\* A catch that asks for another attempt whatever the error.
AlwaysRetry(status) == TRUE

\* The catch of the retry loops: only a 409 conflict asks for another attempt.
Retryable(status) == status = 409

\* ------------------------------------------------- how a handler goes on
\* The handler is over: its locals are gone, what it did is kept.
Returned(tk, result) ==
  [IdleTask EXCEPT !.op = tk.op, !.pc = "done", !.id = tk.id,
                   !.charIndex = tk.charIndex, !.msgIndex = tk.msgIndex,
                   !.commentIndex = tk.commentIndex, !.db = tk.db,
                   !.attempt = tk.attempt, !.lastError = tk.lastError,
                   !.gets = tk.gets, !.puts = tk.puts, !.result = result,
                   !.confirm = tk.confirm, !.issued = tk.issued]

\* A handler that goes on whatever confirm() has answered.
Unasked(ok) == TRUE

\* if (!confirm('...')) return
Confirmed(ok) == ok

\* A destructive handler is invoked and the user answers its confirm()
\* with `ok`: accepted, it goes on as `started` up to its first await;
\* declined, it returns.
Confirm(p, ok, started) ==
  task' = [task EXCEPT ![p] =
             IF Confirmed(ok) THEN [started EXCEPT !.confirm = ok]
             ELSE Returned([started EXCEPT !.confirm = ok], "declined")]

\* The handler returns from its try block: the edit handlers close their form.
Finish(p, tk) ==
  /\ task' = [task EXCEPT ![p] = Returned(tk, tk.result)]
  /\ IF tk.op = "saveEdit"
     THEN editingIndex' = 0 /\ editingCharacter' = <<>>
     ELSE UNCHANGED editCharVars
  /\ IF tk.op = "saveEditMessage"
     THEN editingMessageIndex' = <<>> /\ editingMessageText' = <<>>
     ELSE UNCHANGED editMsgVars
  /\ IF tk.op = "saveEditComment"
     THEN editingCommentIndex' = <<>> /\ editingCommentText' = <<>>
     ELSE UNCHANGED editCmtVars

\* An exception reaches the handler's catch: it is logged and nothing else.
Thrown(p, tk) ==
  /\ task' = [task EXCEPT ![p] = Returned(tk, "thrown")]
  /\ UNCHANGED editVars

\* An exception leaves the handler, which has no catch on its way: the
\* promise the handler returned is rejected.
Rejected(p, tk) ==
  /\ task' = [task EXCEPT ![p] = Returned(tk, "rejected")]
  /\ UNCHANGED editVars

\* loadMessagesForCharacter(characterId, charIndex) is called: its first
\* find, sorted as orderByLikesForChar says at the call.
CallLoadMessages(p, tk, characterId, charIndex) ==
  /\ task' = [task EXCEPT ![p] =
                [tk EXCEPT !.pc = "lmFind", !.lmCharId = characterId,
                           !.lmIndex = charIndex, !.lmMsgs = <<>>, !.lmUi = <<>>,
                           !.lmByLikes = characterId \in orderByLikesForChar,
                           !.latestDoc = NoDoc, !.mergedDoc = NoDoc,
                           !.updated = NoDoc]]
  /\ UNCHANGED editVars

\* fetchData(onlyTopMessagesByLikes) is called by handler `tk`: its first
\* find is issued, with the skip of the page shown at the call.
StartFetch(p, tk, top, page) ==
  /\ task' = [task EXCEPT ![p] =
                [tk EXCEPT !.fetch = IF top THEN "top" ELSE "full",
                           !.pc = IF top THEN "ftFind" ELSE "fdFind",
                           !.skip = page * TOP_PAGE_SIZE]]
  /\ UNCHANGED editVars

\* saveWithConflictRetry has returned into its caller (tk.result, tk.updated).
AfterSave(p, tk) ==
  IF tk.result = "doc"
  THEN CASE tk.op \in {"likeCharacter", "saveEdit"} ->
              /\ characters' = SetEntry(characters, tk.charIndex,
                                        mapCharacterDoc(tk.updated))
              /\ CallLoadMessages(p, tk, tk.id, tk.charIndex)
         [] tk.op \in {"likeMessage", "saveEditMessage"} ->
              /\ UNCHANGED characters
              /\ IF tk.op = "likeMessage" /\ sortByLikes
                 THEN StartFetch(p, tk, TRUE, topMessagesPage)
                 ELSE IF HasEntry(characters, tk.charIndex)
                      THEN CallLoadMessages(p, tk,
                                            characters[tk.charIndex].docId,
                                            tk.charIndex)
                      ELSE Thrown(p, tk)
         [] tk.op = "saveEditComment" ->
              /\ UNCHANGED characters
              /\ CallLoadMessages(p, tk, tk.lmCharId, tk.charIndex)
  ELSE UNCHANGED characters /\ Finish(p, tk)

\* ------------------------------------------------- saveWithConflictRetry
\* A catch block that gives up one attempt earlier.
SaveCaughtEarly(p, tk, status) ==
  IF Retryable(status) /\ tk.attempt + 1 < maxRetries - 1
  THEN /\ task' = [task EXCEPT ![p] =
                     [tk EXCEPT !.pc = "get", !.lastError = status,
                                !.attempt = tk.attempt + 1]]
       /\ UNCHANGED <<characters, editVars>>
  ELSE AfterSave(p, [tk EXCEPT !.result = "null", !.lastError = status,
                       !.attempt = IF Retryable(status) THEN tk.attempt + 1
                                   ELSE tk.attempt])

\* The catch block with the loop test off by one: a fourth attempt is made.
SaveCaughtOnceMore(p, tk, status) ==
  IF Retryable(status) /\ tk.attempt + 1 <= maxRetries
  THEN /\ task' = [task EXCEPT ![p] =
                     [tk EXCEPT !.pc = "get", !.lastError = status,
                                !.attempt = tk.attempt + 1]]
       /\ UNCHANGED <<characters, editVars>>
  ELSE AfterSave(p, [tk EXCEPT !.result = "null", !.lastError = status])

\* The catch block: a 409 counts an attempt and loops while attempt is below
\* maxRetries; any other error breaks; both ways out return null.
SaveCaught(p, tk, status) ==
  IF Retryable(status) /\ tk.attempt + 1 < maxRetries
  THEN /\ task' = [task EXCEPT ![p] =
                     [tk EXCEPT !.pc = "get", !.lastError = status,
                                !.attempt = tk.attempt + 1]]
       /\ UNCHANGED <<characters, editVars>>
  ELSE AfterSave(p, [tk EXCEPT !.result = "null", !.lastError = status,
                       !.attempt = IF Retryable(status) THEN tk.attempt + 1
                                   ELSE tk.attempt])

\* await getLatestDoc(), then mergeFn(latestDoc) and the call of db.put.
SaveGet(p) ==
  LET tk == task[p]
      db == Db(tk.db)
      t1 == [tk EXCEPT !.gets = tk.gets + 1]
  IN /\ tk.pc = "get"
     /\ UNCHANGED <<storeVars, syncVars, now, initial, uiVars, refreshVars, queryVars>>
     /\ IF GetStatus(db, tk.id) # 200 THEN SaveCaught(p, t1, GetStatus(db, tk.id))
        ELSE IF MergeThrows(tk.op) THEN SaveCaught(p, t1, 500)
        ELSE /\ task' = [task EXCEPT ![p] =
                           [t1 EXCEPT !.pc = "put", !.latestDoc = db[tk.id],
                                      !.mergedDoc = Merge(tk.op, db[tk.id])]]
             /\ UNCHANGED <<characters, editVars>>

\* The answer of db.put(mergedDoc).
SavePut(p) ==
  LET tk == task[p]
      db == Db(tk.db)
      t1 == [tk EXCEPT !.puts = tk.puts + 1]
  IN /\ tk.pc = "put"
     /\ UNCHANGED <<syncVars, now, initial, uiVars, refreshVars, queryVars>>
     /\ IF PutStatus(db, tk.mergedDoc) = 201
        THEN /\ SetDb(tk.db, PutDoc(db, tk.mergedDoc))
             /\ AfterSave(p, [t1 EXCEPT !.result = "doc",
                                !.updated = PutDoc(db, tk.mergedDoc)[tk.id]])
        ELSE /\ UNCHANGED storeVars
             /\ SaveCaught(p, t1, PutStatus(db, tk.mergedDoc))

\* The store is unavailable: the get or the put of the loop fails with an
\* error that is no conflict.
SaveFails(p) ==
  LET tk == task[p]
      t1 == IF tk.pc = "get" THEN [tk EXCEPT !.gets = tk.gets + 1]
                             ELSE [tk EXCEPT !.puts = tk.puts + 1]
  IN /\ tk.pc \in {"get", "put"}
     /\ UNCHANGED <<storeVars, syncVars, now, initial, uiVars, refreshVars, queryVars>>
     /\ SaveCaught(p, t1, 500)

\* ------------------------------------------------ loadMessagesForCharacter
\* A query that sorts the comments of the message by ascending createdAt.
OldestComment(mid) ==
  LET cs == SortBy(Find(storageCharacters,
                        [type |-> {"comment"}, messageId |-> {mid}]),
                   "createdAt", FALSE)
  IN IF cs = <<>> THEN <<>> ELSE <<CommentUI(cs[1])>>

\* The newest comment of message `mid` (sort createdAt desc, limit 1).
LatestComment(mid) ==
  LET cs == SortBy(Find(storageCharacters,
                        [type |-> {"comment"}, messageId |-> {mid}]),
                   "createdAt", TRUE)
  IN IF cs = <<>> THEN <<>> ELSE <<CommentUI(cs[1])>>

\* if (characters.value[charIndex]?.docId === characterId) ...messages = ui
AssignMessages(view, tk, ui) ==
  IF HasEntry(view, tk.lmIndex) /\ view[tk.lmIndex].docId = tk.lmCharId
  THEN [view EXCEPT ![tk.lmIndex].data.messages = ui]
  ELSE view

\* ---------------------------------------------- the targeted refreshes
\* characters.value.findIndex(c => c.docId === id), 1-based, 0 for -1.
FindIndex(view, id) ==
  IF \E i \in 1..Len(view) : view[i].docId = id
  THEN CHOOSE i \in 1..Len(view) :
         /\ view[i].docId = id
         /\ \A j \in 1..(i - 1) : view[j].docId # id
  ELSE 0

\* The callback of findIndex reads c.docId of a hole: a TypeError.
FindIndexThrows(view, id) ==
  \E i \in 1..Len(view) :
    /\ view[i] = Hole
    /\ \A j \in 1..(i - 1) : view[j].docId # id

\* refreshCommentsForMessageId: the first entry of the view that lists
\* message `mid`, 0 when none does.
WhereMessage(view, mid) ==
  LET has(i) == \E j \in 1..Len(view[i].data.messages) :
                  view[i].data.messages[j].id = mid
  IN IF \E i \in 1..Len(view) : has(i)
     THEN CHOOSE i \in 1..Len(view) :
            has(i) /\ \A k \in 1..(i - 1) : ~has(k)
     ELSE 0

\* It reads .data of a hole on its way: a TypeError.
WhereMessageThrows(view, mid) ==
  \E i \in 1..Len(view) :
    /\ view[i] = Hole
    /\ WhereMessage(view, mid) \in {0} \cup (i + 1)..Len(view)

\* The dirty message ids from the first one on that the view lists; the
\* ones before it make refreshCommentsForMessageId return at once.
RECURSIVE Listed(_, _)
Listed(mids, view) ==
  IF mids = <<>> \/ WhereMessageThrows(view, Head(mids))
     \/ WhereMessage(view, Head(mids)) # 0
  THEN mids
  ELSE Listed(Tail(mids), view)

\* for (const mid of msgIds) await refreshCommentsForMessageId(mid), with
\* the view as it is now; after the last one the callback returns.
CallRefreshComments(p, tk, view) ==
  LET mids == Listed(tk.msgIds, view) IN
  IF mids = <<>> THEN Finish(p, [tk EXCEPT !.msgIds = <<>>])
  ELSE IF WhereMessageThrows(view, Head(mids)) THEN Rejected(p, tk)
  ELSE LET i == WhereMessage(view, Head(mids))
       IN CallLoadMessages(p, [tk EXCEPT !.msgIds = Tail(mids)],
                           view[i].docId, i)

\* refreshCharacterById(cid) is called for the next dirty character: idx is
\* taken from the view, then the get is issued.
CallRefreshCharacter(p, tk, view) ==
  LET cid == Head(tk.charIds) IN
  IF FindIndexThrows(view, cid) THEN Rejected(p, tk)
  ELSE /\ task' = [task EXCEPT ![p] =
                     [tk EXCEPT !.pc = "rcGet",
                                !.rcIdx = FindIndex(view, cid)]]
       /\ UNCHANGED editVars

\* The loops of the callback go on with the view as it is now.
RefreshNext(p, tk, view) ==
  IF tk.charIds # <<>> THEN CallRefreshCharacter(p, tk, view)
  ELSE CallRefreshComments(p, tk, view)

\* refreshCharacterById has returned: refreshMessagesForCharacterId(cid),
\* which returns at once when the view does not list the character.
CallRefreshMessages(p, tk, view) ==
  LET cid == Head(tk.charIds)
      t1 == [tk EXCEPT !.charIds = Tail(tk.charIds), !.rcIdx = 0]
  IN IF FindIndexThrows(view, cid) THEN Rejected(p, tk)
     ELSE IF FindIndex(view, cid) = 0 THEN RefreshNext(p, t1, view)
     ELSE CallLoadMessages(p, t1, cid, FindIndex(view, cid))

\* The handler runs the else branch of fetchData: reloadAllMessages.
InFullFetch(tk) == tk.op = "fetchData" \/ tk.fetch = "full"

\* A handler awaits loadMessageMediaUrl / loadCharacterMediaUrl for `ids`
\* one after the other (for ... of); with none it goes on at once.
CallLoadMedia(p, tk, pc, ids) ==
  /\ task' = [task EXCEPT ![p] = [tk EXCEPT !.pc = pc, !.mediaIds = ids]]
  /\ UNCHANGED editVars

\* loadMessagesForCharacter has returned: reloadAllMessages (fetchData) goes
\* on with the next entry of the view, the refresh callback with its next
\* dirty id, saveEdit and likeCharacter load the media of the character,
\* the other handlers return.
AfterLoad(p, tk) ==
  IF InFullFetch(tk) /\ tk.lmIndex < Len(characters')
  THEN IF HasEntry(characters', tk.lmIndex + 1)
       THEN CallLoadMessages(p, tk, characters'[tk.lmIndex + 1].docId,
                             tk.lmIndex + 1)
       ELSE Thrown(p, tk)
  ELSE IF tk.op = "refresh" /\ tk.fetch = "none"
       THEN RefreshNext(p, tk, characters')
       ELSE IF tk.op \in {"saveEdit", "likeCharacter"} /\ tk.fetch = "none"
            THEN CallLoadMedia(p, tk, "cMedia", <<tk.id>>)
            ELSE Finish(p, tk)

\* visibleComments once handler `tk` has taken a step: addComment sets the
\* flag of its message when its loadMessagesForCharacter has returned.
Visible(tk, after) ==
  IF tk.op = "addComment" /\ after.pc = "done" /\ after.result = "doc"
  THEN visibleComments \cup {<<tk.charIndex, tk.msgIndex>>}
  ELSE visibleComments

\* The answer of the find on the messages of the character.
LoadFind(p) ==
  LET tk == task[p]
      found == SortBy(Find(storageMessages,
                           [type |-> {"message"},
                            characterId |-> {tk.lmCharId}]),
                      IF tk.lmByLikes THEN "likes" ELSE "createdAt", TRUE)
  IN /\ tk.pc = "lmFind"
     /\ UNCHANGED <<storeVars, syncVars, now, initial, mediaVars, refreshVars,
                    queryVars>>
     /\ IF found = <<>>
        THEN /\ characters' = AssignMessages(characters, tk, <<>>)
             /\ AfterLoad(p, tk)
        ELSE /\ task' = [task EXCEPT ![p] =
                           [tk EXCEPT !.pc = "lmComment", !.lmMsgs = found]]
             /\ UNCHANGED <<characters, editVars>>
     /\ visibleComments' = Visible(tk, task'[p])

\* The answer of the find on the newest comment of the next message; after
\* the last one the list is put into the view and the media of its
\* messages are loaded.
LoadComment(p) ==
  LET tk == task[p]
      m == tk.lmMsgs[Len(tk.lmUi) + 1]
      ui == Append(tk.lmUi, MessageUI(m, LatestComment(m._id)))
      t1 == [tk EXCEPT !.lmUi = ui]
  IN /\ tk.pc = "lmComment"
     /\ UNCHANGED <<storeVars, syncVars, now, initial, uiVars, refreshVars, queryVars>>
     /\ IF Len(ui) < Len(tk.lmMsgs)
        THEN /\ task' = [task EXCEPT ![p] = t1]
             /\ UNCHANGED <<characters, editVars>>
        ELSE /\ characters' = AssignMessages(characters, tk, ui)
             /\ CallLoadMedia(p, [t1 EXCEPT !.lmMsgs = <<>>], "lmMedia",
                              [j \in DOMAIN ui |-> ui[j].id])

\* The callers of loadMessagesForCharacter that await it inside a try
\* block: fetchData and searchByAffiliation (reloadAllMessages) and the
\* handlers of the cards; toggleCharSort and the refresh callback do not.
Caught(tk) == tk.op \notin {"toggleCharSort", "refresh"} \/ InFullFetch(tk)

\* A find of loadMessagesForCharacter is rejected (index missing, storage
\* unavailable): the function has no catch, the rejection is its caller's.
LoadFails(p) ==
  LET tk == task[p]
  IN /\ tk.pc \in {"lmFind", "lmComment"}
     /\ IF Caught(tk) THEN Thrown(p, tk) ELSE Rejected(p, tk)
     /\ UNCHANGED <<storeVars, characters, syncVars, now, initial, uiVars,
                    refreshVars, queryVars>>

\* The sort button of a card: the order of the messages of the character
\* is flipped and they are loaded again.
toggleCharSort(p, charIndex) ==
  LET id == characters[charIndex].docId
  IN /\ CanStart(p)
     /\ HasEntry(characters, charIndex)
     /\ editingIndex # charIndex
     /\ orderByLikesForChar' =
          IF id \in orderByLikesForChar THEN orderByLikesForChar \ {id}
          ELSE orderByLikesForChar \cup {id}
     /\ task' = [task EXCEPT ![p] =
                   [IdleTask EXCEPT !.op = "toggleCharSort", !.pc = "lmFind",
                                    !.charIndex = charIndex,
                                    !.lmCharId = id, !.lmIndex = charIndex,
                                    !.lmByLikes = id \notin orderByLikesForChar]]
     /\ UNCHANGED <<storeVars, characters, syncVars, editVars, now, initial, uiVars,
                    refreshVars, sortByLikes, topMessagesPage, indexes>>

\* --------------------------------------------------------------- the likes
likeCharacter(p, charIndex) ==
  /\ CanStart(p)
  /\ HasEntry(characters, charIndex)
  /\ editingIndex # charIndex
  /\ task' = [task EXCEPT ![p] =
                [IdleTask EXCEPT !.op = "likeCharacter", !.pc = "get",
                                 !.charIndex = charIndex, !.db = "chars",
                                 !.id = characters[charIndex].docId]]
  /\ UNCHANGED <<storeVars, characters, syncVars, editVars, now, initial, uiVars, refreshVars, queryVars>>

likeMessage(p, charIndex, msgIndex) ==
  /\ CanStart(p)
  /\ HasMessage(characters, charIndex, msgIndex)
  /\ editingIndex # charIndex
  /\ editingMessageIndex # <<[charIndex |-> charIndex, msgIndex |-> msgIndex]>>
  /\ task' = [task EXCEPT ![p] =
                [IdleTask EXCEPT !.op = "likeMessage", !.pc = "get",
                                 !.charIndex = charIndex, !.msgIndex = msgIndex,
                                 !.db = "msgs",
                                 !.id = characters[charIndex].data
                                          .messages[msgIndex].id]]
  /\ UNCHANGED <<storeVars, characters, syncVars, editVars, now, initial, uiVars, refreshVars, queryVars>>

\* ------------------------------------------------------- editing a message
startEditMessage(charIndex, msgIndex) ==
  /\ HasMessage(characters, charIndex, msgIndex)
  /\ editingIndex # charIndex
  /\ editingMessageIndex # <<[charIndex |-> charIndex, msgIndex |-> msgIndex]>>
  /\ editingMessageIndex' = <<[charIndex |-> charIndex, msgIndex |-> msgIndex]>>
  /\ editingMessageText' = characters[charIndex].data.messages[msgIndex].text
  /\ UNCHANGED <<storeVars, characters, syncVars, editCharVars, editCmtVars,
                 now, task, initial, uiVars, refreshVars, queryVars>>

\* The edit row of the message being edited is on screen.
MessageFormShown ==
  /\ editingMessageIndex # <<>>
  /\ HasMessage(characters, editingMessageIndex[1].charIndex,
                editingMessageIndex[1].msgIndex)
  /\ editingIndex # editingMessageIndex[1].charIndex

\* v-model="editingMessageText": the user types into the edit row.
typeMessageText(s) ==
  /\ MessageFormShown
  /\ editingMessageText # s
  /\ editingMessageText' = s
  /\ UNCHANGED <<storeVars, characters, syncVars, editCharVars,
                 editingMessageIndex, editCmtVars, now, task, initial, uiVars, refreshVars, queryVars>>

cancelEditMessage ==
  /\ MessageFormShown
  /\ editingMessageIndex' = <<>>
  /\ editingMessageText' = <<>>
  /\ UNCHANGED <<storeVars, characters, syncVars, editCharVars, editCmtVars,
                 now, task, initial, uiVars, refreshVars, queryVars>>

saveEditMessage(p) ==
  /\ CanStart(p)
  /\ MessageFormShown
  /\ LET e == editingMessageIndex[1]
         msg == characters[e.charIndex].data.messages[e.msgIndex]
     IN task' = [task EXCEPT ![p] =
                   [IdleTask EXCEPT !.op = "saveEditMessage", !.pc = "get",
                                    !.charIndex = e.charIndex,
                                    !.msgIndex = e.msgIndex,
                                    !.db = "msgs", !.id = msg.id]]
  /\ UNCHANGED <<storeVars, characters, syncVars, editVars, now, initial, uiVars, refreshVars, queryVars>>

\* ---------------------------------------------------------- removeWithRetry
\* removeWithRetry has returned into its caller (tk.result is true or false).
AfterRemove(p, tk) ==
  CASE tk.op = "deleteComment" ->
         /\ UNCHANGED characters
         /\ CallLoadMessages(p, tk, tk.lmCharId, tk.charIndex)
    [] tk.op = "deleteMessage" ->
         /\ UNCHANGED characters
         /\ CallLoadMessages(p, tk, tk.lmCharId, tk.charIndex)
    [] tk.op = "deleteCharacter" ->
         /\ characters' = Splice(characters, tk.charIndex)
         /\ Finish(p, tk)

\* A catch block that raises again the error that is no conflict.
RemoveCaughtRethrows(p, tk, status) ==
  IF Retryable(status) /\ tk.attempt + 1 < maxRetries
  THEN /\ task' = [task EXCEPT ![p] =
                     [tk EXCEPT !.pc = "rmGet", !.lastError = status,
                                !.attempt = tk.attempt + 1]]
       /\ UNCHANGED <<characters, editVars>>
  ELSE IF Retryable(status)
  THEN AfterRemove(p, [tk EXCEPT !.result = "false", !.lastError = status,
                         !.attempt = tk.attempt + 1])
  ELSE /\ UNCHANGED characters
       /\ Rejected(p, [tk EXCEPT !.lastError = status])

\* The catch block of removeWithRetry, the one of saveWithConflictRetry
\* with false for null.
RemoveCaught(p, tk, status) ==
  IF Retryable(status) /\ tk.attempt + 1 < maxRetries
  THEN /\ task' = [task EXCEPT ![p] =
                     [tk EXCEPT !.pc = "rmGet", !.lastError = status,
                                !.attempt = tk.attempt + 1]]
       /\ UNCHANGED <<characters, editVars>>
  ELSE AfterRemove(p, [tk EXCEPT !.result = "false", !.lastError = status,
                         !.attempt = IF Retryable(status) THEN tk.attempt + 1
                                     ELSE tk.attempt])

\* const d = await db.get(id), then the call of db.remove(d)
RemoveGet(p) ==
  LET tk == task[p]
      db == Db(tk.db)
      t1 == [tk EXCEPT !.gets = tk.gets + 1]
  IN /\ tk.pc = "rmGet"
     /\ UNCHANGED <<storeVars, syncVars, now, initial, uiVars, refreshVars, queryVars>>
     /\ IF GetStatus(db, tk.id) # 200 THEN RemoveCaught(p, t1, GetStatus(db, tk.id))
        ELSE /\ task' = [task EXCEPT ![p] =
                           [t1 EXCEPT !.pc = "rmRemove", !.latestDoc = db[tk.id]]]
             /\ UNCHANGED <<characters, editVars>>

\* The answer of db.remove(d): the document becomes a tombstone.
RemoveDoc(p) ==
  LET tk == task[p]
      db == Db(tk.db)
      t1 == [tk EXCEPT !.puts = tk.puts + 1]
      tomb == tombstone(tk.latestDoc)
  IN /\ tk.pc = "rmRemove"
     /\ UNCHANGED <<syncVars, now, initial, uiVars, refreshVars, queryVars>>
     /\ IF PutStatus(db, tomb) = 201
        THEN /\ SetDb(tk.db, PutDoc(db, tomb))
             /\ AfterRemove(p, [t1 EXCEPT !.result = "true",
                                   !.issued = Append(tk.issued, "remove")])
        ELSE /\ UNCHANGED storeVars
             /\ RemoveCaught(p, t1, PutStatus(db, tomb))

\* The store is unavailable during the get or the remove of the loop.
RemoveFails(p) ==
  LET tk == task[p]
      t1 == IF tk.pc = "rmGet" THEN [tk EXCEPT !.gets = tk.gets + 1]
                               ELSE [tk EXCEPT !.puts = tk.puts + 1]
  IN /\ tk.pc \in {"rmGet", "rmRemove"}
     /\ UNCHANGED <<storeVars, syncVars, now, initial, uiVars, refreshVars, queryVars>>
     /\ RemoveCaught(p, t1, 500)

deleteComment(p, charIndex, msgIndex, commentIndex, ok) ==
  /\ CanStart(p)
  /\ HasComment(characters, charIndex, msgIndex, commentIndex)
  /\ editingIndex # charIndex
  /\ editingMessageIndex # <<[charIndex |-> charIndex, msgIndex |-> msgIndex]>>
  /\ Confirm(p, ok,
             [IdleTask EXCEPT !.op = "deleteComment", !.pc = "rmGet",
                              !.charIndex = charIndex, !.msgIndex = msgIndex,
                              !.commentIndex = commentIndex,
                              !.db = "chars",
                              !.id = characters[charIndex].data
                                       .messages[msgIndex]
                                       .comments[commentIndex].id,
                              !.lmCharId = characters[charIndex].docId])
  /\ UNCHANGED <<storeVars, characters, syncVars, editVars, now, initial, uiVars, refreshVars, queryVars>>

\* ------------------------------------------------------------- the creates
\* The form of a new character: its likes are 0 (no input edits them).
NewCharacters ==
  [name : {"Rey"}, age : {20}, affiliation : Strs, lightsaber : {FALSE},
   likes : {0}]

\* addCharacter up to its put: newCharacter is what the form holds.
addCharacter(p, newCharacter) ==
  /\ CanStart(p)
  /\ task' = [task EXCEPT ![p] =
                [IdleTask EXCEPT
                   !.op = "addCharacter", !.pc = "create", !.db = "chars",
                   !.id = CharId(now),
                   !.mergedDoc = CharacterDoc(now, newCharacter.name,
                                              newCharacter.age,
                                              newCharacter.affiliation,
                                              newCharacter.lightsaber,
                                              newCharacter.likes)]]
  /\ UNCHANGED <<storeVars, characters, syncVars, editVars, now, initial, uiVars, refreshVars, queryVars>>

\* addMessage up to its put: `text` is newMessageText[charIndex].
addMessage(p, charIndex, text) ==
  /\ CanStart(p)
  /\ HasEntry(characters, charIndex)
  /\ editingIndex # charIndex
  /\ trim(text) # <<>>
  /\ task' = [task EXCEPT ![p] =
                [IdleTask EXCEPT
                   !.op = "addMessage", !.pc = "create", !.db = "msgs",
                   !.charIndex = charIndex, !.id = MsgId(now),
                   !.lmCharId = characters[charIndex].docId,
                   !.mergedDoc = MessageDoc(now, characters[charIndex].docId,
                                            trim(text), now)]]
  /\ UNCHANGED <<storeVars, characters, syncVars, editVars, now, initial, uiVars, refreshVars, queryVars>>

\* addComment up to its put: `text` is newCommentText[charIndex-msgIndex].
addComment(p, charIndex, msgIndex, text) ==
  /\ CanStart(p)
  /\ HasMessage(characters, charIndex, msgIndex)
  /\ editingIndex # charIndex
  /\ editingMessageIndex # <<[charIndex |-> charIndex, msgIndex |-> msgIndex]>>
  /\ trim(text) # <<>>
  /\ task' = [task EXCEPT ![p] =
                [IdleTask EXCEPT
                   !.op = "addComment", !.pc = "create", !.db = "chars",
                   !.charIndex = charIndex, !.msgIndex = msgIndex,
                   !.id = CmtId(now),
                   !.lmCharId = characters[charIndex].docId,
                   !.mergedDoc = CommentDoc(now,
                                            characters[charIndex].data
                                              .messages[msgIndex].id,
                                            trim(text), now)]]
  /\ UNCHANGED <<storeVars, characters, syncVars, editVars, now, initial, uiVars, refreshVars, queryVars>>

\* A create that writes over the stored document when its id is taken.
CreateUpsert(p) ==
  LET tk == task[p]
      db == Db(tk.db)
      doc == [tk.mergedDoc EXCEPT !._rev = db[tk.id]._rev]
  IN /\ tk.pc = "create"
     /\ UNCHANGED <<syncVars, now, initial, uiVars, refreshVars, queryVars>>
     /\ SetDb(tk.db, PutDoc(db, doc))
     /\ IF tk.op = "addCharacter"
        THEN /\ characters' =
                  Append(characters, mapCharacterDoc(PutDoc(db, doc)[tk.id]))
             /\ Finish(p, [tk EXCEPT !.puts = tk.puts + 1, !.result = "doc"])
        ELSE /\ UNCHANGED characters
             /\ CallLoadMessages(p, [tk EXCEPT !.puts = tk.puts + 1,
                                               !.result = "doc"],
                                 tk.lmCharId, tk.charIndex)

\* The answer of the put of a new document: a conflict is thrown into the
\* handler's catch; otherwise addCharacter pushes the character onto the
\* view and the two others reload the messages of the character.
CreatePut(p) ==
  LET tk == task[p]
      db == Db(tk.db)
      t1 == [tk EXCEPT !.puts = tk.puts + 1]
  IN /\ tk.pc = "create"
     /\ UNCHANGED <<syncVars, now, initial, uiVars, refreshVars, queryVars>>
     /\ IF PutStatus(db, tk.mergedDoc) = 201
        THEN /\ SetDb(tk.db, PutDoc(db, tk.mergedDoc))
             /\ IF tk.op = "addCharacter"
                THEN /\ characters' =
                          Append(characters,
                                 mapCharacterDoc(PutDoc(db, tk.mergedDoc)[tk.id]))
                     /\ Finish(p, [t1 EXCEPT !.result = "doc"])
                ELSE /\ UNCHANGED characters
                     /\ CallLoadMessages(p, [t1 EXCEPT !.result = "doc"],
                                         tk.lmCharId, tk.charIndex)
        ELSE /\ UNCHANGED <<storeVars, characters>>
             /\ Thrown(p, [t1 EXCEPT !.lastError = PutStatus(db, tk.mergedDoc)])

\* ----------------------------------------------------- editing a character
startEdit(index) ==
  /\ HasEntry(characters, index)
  /\ editingIndex # index
  /\ editingIndex' = index
  /\ editingCharacter' = <<characters[index].data>>
  /\ UNCHANGED <<storeVars, characters, syncVars, editMsgVars, editCmtVars,
                 now, task, initial, uiVars, refreshVars, queryVars>>

\* The edit form of the character being edited is on screen.
CharacterFormShown ==
  /\ editingIndex # 0
  /\ editingCharacter # <<>>
  /\ HasEntry(characters, editingIndex)

\* v-model="editingCharacter.affiliation": the user types into the form.
typeAffiliation(s) ==
  /\ CharacterFormShown
  /\ editingCharacter[1].affiliation # s
  /\ editingCharacter' = <<[editingCharacter[1] EXCEPT !.affiliation = s]>>
  /\ UNCHANGED <<storeVars, characters, syncVars, editingIndex, editMsgVars,
                 editCmtVars, now, task, initial, uiVars, refreshVars, queryVars>>

cancelEdit ==
  /\ CharacterFormShown
  /\ editingIndex' = 0
  /\ editingCharacter' = <<>>
  /\ UNCHANGED <<storeVars, characters, syncVars, editMsgVars, editCmtVars,
                 now, task, initial, uiVars, refreshVars, queryVars>>

\* saveEdit(index) up to the first get of its saveWithConflictRetry.
saveEdit(p, index) ==
  /\ CanStart(p)
  /\ CharacterFormShown
  /\ editingIndex = index
  /\ task' = [task EXCEPT ![p] =
                [IdleTask EXCEPT !.op = "saveEdit", !.pc = "get",
                                 !.charIndex = index, !.db = "chars",
                                 !.id = characters[index].docId]]
  /\ UNCHANGED <<storeVars, characters, syncVars, editVars, now, initial, uiVars, refreshVars, queryVars>>

\* ---------------------------------------------------------------- the media
\* file.type || 'application/octet-stream'
ContentType(fileType) ==
  IF fileType = "" THEN "application/octet-stream" ELSE fileType

AttachOps == {"attachMediaToCharacter", "attachMediaToMessage"}

\* putAttachment / removeAttachment with revision `rev`: 404 for a deleted
\* document, 409 unless `rev` is the stored revision.
AttachmentStatus(db, id, rev) ==
  IF ~Live(db[id]) THEN 404 ELSE IF db[id]._rev = rev THEN 201 ELSE 409

\* The card of character `characterId` is on screen.
CharacterShown(characterId) ==
  \E i \in 1..Len(characters) :
    HasEntry(characters, i) /\ characters[i].docId = characterId
                            /\ editingIndex # i

\* The row of message `msgId` is on screen.
MessageShown(msgId) ==
  \E i \in 1..Len(characters) :
    /\ HasEntry(characters, i) /\ editingIndex # i
    /\ \E j \in 1..Len(characters[i].data.messages) :
         /\ characters[i].data.messages[j].id = msgId
         /\ editingMessageIndex # <<[charIndex |-> i, msgIndex |-> j]>>

\* A media handler up to its first get; the remove handlers ask for a
\* confirmation first, the attach handlers do not.
StartMedia(p, op, db, id, fileType, ok) ==
  /\ CanStart(p)
  /\ Confirm(p, ok, [IdleTask EXCEPT !.op = op, !.pc = "mGet1", !.db = db,
                                     !.id = id, !.fileType = fileType])
  /\ UNCHANGED <<storeVars, characters, syncVars, editVars, now, initial, uiVars, refreshVars, queryVars>>

\* The file chosen for the character has type `fileType`.
attachMediaToCharacter(p, characterId, fileType) ==
  /\ CharacterShown(characterId)
  /\ StartMedia(p, "attachMediaToCharacter", "chars", characterId, fileType,
                TRUE)

\* The button is shown while a URL is held for the character.
removeMediaFromCharacter(p, characterId, ok) ==
  /\ CharacterShown(characterId)
  /\ characterMediaUrl[characterId] # NoUrl
  /\ StartMedia(p, "removeMediaFromCharacter", "chars", characterId, "", ok)

attachMediaToMessage(p, msgId, fileType) ==
  /\ MessageShown(msgId)
  /\ StartMedia(p, "attachMediaToMessage", "msgs", msgId, fileType, TRUE)

\* The button is shown while a URL is held for the message.
removeMediaFromMessage(p, msgId, ok) ==
  /\ MessageShown(msgId)
  /\ messageMediaUrl[msgId] # NoUrl
  /\ StartMedia(p, "removeMediaFromMessage", "msgs", msgId, "", ok)

\* The answer of the first or the second get of a media handler; after the
\* second the content type is stamped (deleted) and the put is called.
MediaGet(p) ==
  LET tk == task[p]
      db == Db(tk.db)
      t1 == [tk EXCEPT !.gets = tk.gets + 1]
      stamped == [db[tk.id] EXCEPT
                    !.mediaContentType = IF tk.op \in AttachOps
                                         THEN ContentType(tk.fileType)
                                         ELSE "none"]
  IN /\ tk.pc \in {"mGet1", "mGet2"}
     /\ UNCHANGED <<storeVars, characters, syncVars, now, initial, uiVars, refreshVars, queryVars>>
     /\ IF GetStatus(db, tk.id) # 200
        THEN Thrown(p, [t1 EXCEPT !.lastError = GetStatus(db, tk.id)])
        ELSE /\ task' = [task EXCEPT ![p] =
                           IF tk.pc = "mGet1"
                           THEN [t1 EXCEPT !.pc = "mAttach",
                                           !.latestDoc = db[tk.id]]
                           ELSE [t1 EXCEPT !.pc = "mPut", !.latestDoc = NoDoc,
                                           !.mergedDoc = stamped]]
             /\ UNCHANGED editVars

\* The answer of putAttachment / removeAttachment(id, 'media', doc._rev):
\* the stored document gets (loses) the blob in a new revision; removing
\* from a document that has none writes nothing.
MediaAttachment(p) ==
  LET tk == task[p]
      db == Db(tk.db)
      st == AttachmentStatus(db, tk.id, tk.latestDoc._rev)
      t1 == [tk EXCEPT !.puts = tk.puts + 1]
  IN /\ tk.pc = "mAttach"
     /\ UNCHANGED <<characters, syncVars, now, initial, uiVars, refreshVars, queryVars>>
     /\ IF st = 201
        THEN /\ IF tk.op \in AttachOps \/ db[tk.id].media
                THEN SetDb(tk.db, PutDoc(db, [db[tk.id] EXCEPT
                                                !.media = tk.op \in AttachOps]))
                ELSE UNCHANGED storeVars
             /\ task' = [task EXCEPT ![p] = [t1 EXCEPT !.pc = "mGet2"]]
             /\ UNCHANGED editVars
        ELSE /\ UNCHANGED storeVars
             /\ Thrown(p, [t1 EXCEPT !.lastError = st])

\* The answer of the put of the stamped document: the attach handlers
\* load the URL of the new blob, the remove handlers revoke the one held.
MediaPut(p) ==
  LET tk == task[p]
      db == Db(tk.db)
      t1 == [tk EXCEPT !.puts = tk.puts + 1]
  IN /\ tk.pc = "mPut"
     /\ UNCHANGED <<characters, syncVars, now, initial, visibleComments,
                    refreshVars, queryVars>>
     /\ IF PutStatus(db, tk.mergedDoc) = 201
        THEN /\ SetDb(tk.db, PutDoc(db, tk.mergedDoc))
             /\ IF tk.op \in AttachOps
                THEN /\ CallLoadMedia(p, [t1 EXCEPT !.result = "doc"],
                                      "mMedia", <<tk.id>>)
                     /\ UNCHANGED mediaVars
                ELSE /\ SetMedia(tk.db, revokeMediaUrl(MediaTable(tk.db),
                                                       objectUrls, tk.id))
                     /\ Finish(p, [t1 EXCEPT !.result = "doc"])
        ELSE /\ UNCHANGED <<storeVars, mediaVars>>
             /\ Thrown(p, [t1 EXCEPT !.lastError = PutStatus(db, tk.mergedDoc)])

\* ------------------------------------------------------ the cascading deletes
\* deleteCharacter(index) up to its find of messages.
deleteCharacter(p, index, ok) ==
  /\ CanStart(p)
  /\ HasEntry(characters, index)
  /\ editingIndex # index
  /\ Confirm(p, ok,
             [IdleTask EXCEPT !.op = "deleteCharacter", !.pc = "findMsgs",
                              !.charIndex = index, !.db = "chars",
                              !.id = characters[index].docId])
  /\ UNCHANGED <<storeVars, characters, syncVars, editVars, now, initial, uiVars, refreshVars, queryVars>>

\* deleteMessage up to its find of comments.
deleteMessage(p, charIndex, msgIndex, ok) ==
  /\ CanStart(p)
  /\ HasMessage(characters, charIndex, msgIndex)
  /\ editingIndex # charIndex
  /\ editingMessageIndex # <<[charIndex |-> charIndex, msgIndex |-> msgIndex]>>
  /\ Confirm(p, ok,
             [IdleTask EXCEPT !.op = "deleteMessage", !.pc = "findCmts",
                              !.charIndex = charIndex, !.msgIndex = msgIndex,
                              !.db = "msgs",
                              !.id = characters[charIndex].data
                                       .messages[msgIndex].id,
                              !.lmCharId = characters[charIndex].docId])
  /\ UNCHANGED <<storeVars, characters, syncVars, editVars, now, initial, uiVars, refreshVars, queryVars>>

\* The cascade goes on at `pc`.  Before the call of removeWithRetry the
\* URL held for the owner is revoked and its entry set to null.
CascadeNext(p, tk, pc, call) ==
  /\ task' = [task EXCEPT ![p] =
                [tk EXCEPT !.pc = pc, !.issued = Append(tk.issued, call)]]
  /\ IF pc = "rmGet"
     THEN SetMedia(tk.db, revokeMediaUrl(MediaTable(tk.db), objectUrls, tk.id))
     ELSE UNCHANGED mediaVars

\* The answer of deleteCharacter's find of the messages of the character:
\* without messages it goes straight to removeWithRetry.
CascadeFindMessages(p) ==
  LET tk == task[p]
      msgs == Find(storageMessages,
                   [type |-> {"message"}, characterId |-> {tk.id}])
  IN /\ tk.pc = "findMsgs"
     /\ CascadeNext(p, [tk EXCEPT !.msgs = msgs],
                    IF msgs = {} THEN "rmGet" ELSE "findCmts", "find messages")
     /\ UNCHANGED <<storeVars, characters, syncVars, editVars, now, initial,
                    visibleComments, refreshVars, queryVars>>

\* A cascade that leaves the messages out.
SkipMessages(op) == "rmGet"

\* Where a cascade goes on once the comments are dealt with.
AfterComments(op) == IF op = "deleteCharacter" THEN "bulkMsgs" ELSE "rmGet"

\* The answer of the find of the comments: of the messages found
\* (deleteCharacter, $in) or of the message (deleteMessage).
CascadeFindComments(p) ==
  LET tk == task[p]
      msgIds == IF tk.op = "deleteCharacter" THEN {m._id : m \in tk.msgs}
                ELSE {tk.id}
      cmts == Find(storageCharacters,
                   [type |-> {"comment"}, messageId |-> msgIds])
  IN /\ tk.pc = "findCmts"
     /\ CascadeNext(p, [tk EXCEPT !.cmts = cmts],
                    IF cmts = {} THEN AfterComments(tk.op) ELSE "bulkCmts",
                    "find comments")
     /\ UNCHANGED <<storeVars, characters, syncVars, editVars, now, initial,
                    visibleComments, refreshVars, queryVars>>

\* The answer of dbChars.bulkDocs(cmts.map(c => ({ ...c, _deleted: true }))).
CascadeBulkComments(p) ==
  LET tk == task[p]
  IN /\ tk.pc = "bulkCmts"
     /\ storageCharacters' =
          BulkDocs(storageCharacters, {tombstone(c) : c \in tk.cmts})
     /\ CascadeNext(p, [tk EXCEPT !.cmts = {}], AfterComments(tk.op),
                    "bulkDocs comments")
     /\ UNCHANGED <<storageMessages, characters, syncVars, editVars, now,
                    initial, visibleComments, refreshVars, queryVars>>

\* The answer of dbMsgs.bulkDocs(msgs.map(m => ({ ...m, _deleted: true }))).
CascadeBulkMessages(p) ==
  LET tk == task[p]
  IN /\ tk.pc = "bulkMsgs"
     /\ storageMessages' =
          BulkDocs(storageMessages, {tombstone(m) : m \in tk.msgs})
     /\ CascadeNext(p, [tk EXCEPT !.msgs = {}], "rmGet", "bulkDocs messages")
     /\ UNCHANGED <<storageCharacters, characters, syncVars, editVars, now,
                    initial, visibleComments, refreshVars, queryVars>>

\* The store is unavailable: a find or a bulkDocs of the cascade raises an
\* error, which the catch of the handler logs.
CascadeFails(p) ==
  LET tk == task[p]
  IN /\ tk.pc \in {"findMsgs", "findCmts", "bulkCmts", "bulkMsgs"}
     /\ Thrown(p, [tk EXCEPT !.lastError = 500])
     /\ UNCHANGED <<storeVars, characters, syncVars, now, initial, uiVars,
                    refreshVars, queryVars>>

\* ------------------------------------------------- the replication session
Handle(name) == IF name = "chars" THEN syncChars ELSE syncMsgs

\* The revisions another client can have written to document `cur`: a
\* like, an edit of its text or affiliation, its deletion.
RemoteLike(cur) == [cur EXCEPT !.likes = cur.likes + 1]

RemoteEdit(cur, s) ==
  CASE cur.type = "character" ->
         [cur EXCEPT !.affiliation = s, !.affiliationLower = toLowerCase(s)]
    [] cur.type = "message" ->
         [cur EXCEPT !.text = s, !.textLower = toLowerCase(s)]
    [] OTHER -> [cur EXCEPT !.text = s]

RemoteDelete(cur) == [cur EXCEPT !._deleted = TRUE]

\* What handleSyncChange reads of a document of info.change.docs.  The
\* tombstone db.remove() writes is a stub that has lost every field but
\* its id; the one bulkDocs writes keeps them.
ChangeDoc(d, stub) ==
  [_id |-> d._id,
   type |-> IF stub THEN "none" ELSE d.type,
   characterId |-> IF stub THEN NoId ELSE d.characterId,
   messageId |-> IF stub THEN NoId ELSE d.messageId]

\* The 'change' event of the session of collection `source`.
ChangeEvent(source, docs) == [source |-> source, docs |-> docs]

\* The revision of a client that had seen none of the likes wins.
RemoteStale(cur) == [cur EXCEPT !.likes = 0]

\* The live session of collection `name` pulls a remote revision of `id`,
\* which becomes the stored revision.
\* and of which the session then emits a 'change' event.
pull(name, id, doc) ==
  /\ Handle(name) # 0
  /\ sessions[name][Handle(name)].state = "open"
  /\ Live(Db(name)[id])
  /\ Db(name)[id]._rev < MaxRev
  /\ doc # Db(name)[id]
  /\ SetDb(name, PutDoc(Db(name), doc))
  /\ \E stub \in {s \in BOOLEAN : s => doc._deleted} :
       changes' = changes \cup {ChangeEvent(name, <<ChangeDoc(doc, stub)>>)}
  /\ UNCHANGED <<characters, syncVars, editVars, now, task, initial, uiVars,
                 pendingVars, syncRefreshTimer, timeouts, queryVars>>

\* The live session of collection `name` pulls a document another client
\* has created, and emits its 'change' event.
pullNew(name, doc) ==
  /\ Handle(name) # 0
  /\ sessions[name][Handle(name)].state = "open"
  /\ Db(name)[doc._id]._rev = 0
  /\ SetDb(name, PutDoc(Db(name), doc))
  /\ changes' = changes \cup {ChangeEvent(name, <<ChangeDoc(doc, FALSE)>>)}
  /\ UNCHANGED <<characters, syncVars, editVars, now, task, initial, uiVars,
                 pendingVars, syncRefreshTimer, timeouts, queryVars>>

\* The batches a 'change' event can list: documents of the three types,
\* with and without the reference to their parent, and the stub of a
\* deletion.
ChangeDocs ==
  {ChangeDoc(CharacterDoc(1, "Luke", 19, <<65>>, TRUE, 0), FALSE),
   ChangeDoc(MessageDoc(1, CharId(2), <<65>>, 1), FALSE),
   ChangeDoc(MessageDoc(2, NoId, <<65>>, 1), FALSE),
   ChangeDoc(CommentDoc(1, MsgId(1), <<97>>, 1), FALSE),
   ChangeDoc(CommentDoc(2, NoId, <<97>>, 1), FALSE),
   ChangeDoc(CharacterDoc(2, "Rey", 20, <<97>>, FALSE, 0), TRUE)}

ChangeBatches ==
  {<<>>} \cup {<<d>> : d \in ChangeDocs}
         \cup {<<d, e>> : d \in ChangeDocs, e \in ChangeDocs}

\* The live session of collection `name` emits a 'change' event for the
\* batch `docs` it has replicated.
emit(name, docs) ==
  /\ Handle(name) # 0
  /\ sessions[name][Handle(name)].state = "open"
  /\ Cardinality(changes) < MaxChanges
  /\ changes' = changes \cup {ChangeEvent(name, docs)}
  /\ UNCHANGED <<storeVars, characters, syncVars, editVars, now, task,
                 initial, uiVars, pendingVars, syncRefreshTimer, timeouts, queryVars>>

\* -------------------------------------------------- handleSyncChange()
\* if (syncRefreshTimer) clearTimeout(syncRefreshTimer): the timeouts
\* still armed out of `n`.  The mutant clears nothing.
KeepsTimeout(timer, n) == n

Cleared(timer, n) == IF timer THEN n - 1 ELSE n

\* scheduleTargetedRefresh(): the armed timeout is cleared and a new one
\* of 120 ms is armed in its place.
scheduleTargetedRefresh ==
  /\ timeouts' = Cleared(syncRefreshTimer, timeouts) + 1
  /\ syncRefreshTimer' = TRUE

\* A classification that marks the changed message itself.
DirtyOwnId(source, d) ==
  CASE source = "chars" /\ d.type = "character" /\ d._id # NoId -> d._id
    [] source = "msgs" /\ d.type = "message" /\ d._id # NoId -> d._id
    [] OTHER -> NoId

\* The branch of handleSyncChange a changed document takes: the id it
\* makes dirty, or none when it asks for the full reload.
DirtyChar(source, d) ==
  CASE source = "chars" /\ d.type = "character" /\ d._id # NoId -> d._id
    [] source = "msgs" /\ d.type = "message" /\ d._id # NoId -> d.characterId
    [] OTHER -> NoId

DirtyMsg(source, d) ==
  IF /\ source = "chars"
     /\ ~(d.type = "character" /\ d._id # NoId)
     /\ d.type = "comment" /\ d.messageId # NoId
  THEN d.messageId ELSE NoId

FullReload(source, d) ==
  DirtyChar(source, d) = NoId /\ DirtyMsg(source, d) = NoId

DirtyChars(source, docs) ==
  {DirtyChar(source, docs[i]) : i \in DOMAIN docs} \ {NoId}

DirtyMsgs(source, docs) ==
  {DirtyMsg(source, docs[i]) : i \in DOMAIN docs} \ {NoId}

NeedsFullReload(source, docs) ==
  docs = <<>> \/ \E i \in DOMAIN docs : FullReload(source, docs[i])

\* A guard that lets the notifications through whatever isOnline says.
AlwaysHandled(online) == TRUE

\* if (!isOnline.value) return
Handled(online) == online

\* handleSyncChange(info, source) for a 'change' event `ev` of a session.
handleSyncChange(ev) ==
  /\ ev \in changes
  /\ changes' = changes \ {ev}
  /\ IF Handled(isOnline)
     THEN /\ pendingCharIds' =
               pendingCharIds \cup DirtyChars(ev.source, ev.docs)
          /\ pendingMsgIds' = pendingMsgIds \cup DirtyMsgs(ev.source, ev.docs)
          /\ pendingNeedFullReload' =
               (pendingNeedFullReload \/ NeedsFullReload(ev.source, ev.docs))
          /\ scheduleTargetedRefresh
     ELSE UNCHANGED <<pendingVars, syncRefreshTimer, timeouts>>
  /\ UNCHANGED <<storeVars, characters, syncVars, editVars, now, task,
                 initial, uiVars, queryVars>>

\* ------------------------------------------------------------ fetchData()
\* The messages of a character as loadMessagesForCharacter lists them.
MessagesOf(cid) ==
  LET ms == SortBy(Find(storageMessages,
                        [type |-> {"message"}, characterId |-> {cid}]),
                   "createdAt", TRUE)
  IN [j \in 1..Len(ms) |-> MessageUI(ms[j], LatestComment(ms[j]._id))]

\* The view a full fetchData() builds from the two stores.
FullView ==
  LET cs == SortBy(Find(storageCharacters, [type |-> {"character"}]),
                   "_id", FALSE)
  IN [i \in 1..Len(cs) |->
        [mapCharacterDoc(cs[i]) EXCEPT !.data.messages = MessagesOf(cs[i]._id)]]

\* The answer of fetchData's find of the characters: the view is replaced,
\* the media of the characters are loaded, then reloadAllMessages starts
\* on its first entry.
FetchFind(p) ==
  LET tk == task[p]
      cs == SortBy(Find(storageCharacters, [type |-> {"character"}]),
                   "_id", FALSE)
  IN /\ tk.pc = "fdFind"
     /\ characters' = [i \in 1..Len(cs) |-> mapCharacterDoc(cs[i])]
     /\ IF cs = <<>> THEN AfterLoad(p, [tk EXCEPT !.lmIndex = 0])
        ELSE CallLoadMedia(p, [tk EXCEPT !.lmIndex = 0], "fdMedia",
                           [i \in 1..Len(cs) |-> cs[i]._id])
     /\ UNCHANGED <<storeVars, syncVars, now, initial, uiVars, refreshVars, queryVars>>

\* A find that always answers with the first page.
FirstPage(db, skip) ==
  LET all == SortBy(Find(db, [type |-> {"message"}, likes |-> Nat]),
                    "likes", TRUE)
  IN SubSeq(all, 1, IF Len(all) < TOP_PAGE_SIZE THEN Len(all)
                    ELSE TOP_PAGE_SIZE)

\* find({type: 'message', likes: {$gte: 0}}, sort likes desc, limit
\* TOP_PAGE_SIZE, skip) on the messages `db`.
TopMessages(db, skip) ==
  LET all == SortBy(Find(db, [type |-> {"message"}, likes |-> Nat]),
                    "likes", TRUE)
  IN SubSeq(all, skip + 1,
            IF Len(all) < skip + TOP_PAGE_SIZE THEN Len(all)
            ELSE skip + TOP_PAGE_SIZE)

\* The answer of the find of the top messages: none empties the view,
\* else the find of their characters is issued.
TopFind(p) ==
  LET tk == task[p]
      found == TopMessages(storageMessages, tk.skip)
  IN /\ tk.pc = "ftFind"
     /\ UNCHANGED <<storeVars, syncVars, now, initial, uiVars, refreshVars, queryVars>>
     /\ IF found = <<>>
        THEN /\ characters' = <<>>
             /\ Finish(p, tk)
        ELSE /\ task' = [task EXCEPT ![p] =
                           [tk EXCEPT !.pc = "ftChars", !.lmMsgs = found]]
             /\ UNCHANGED <<characters, editVars>>

\* A loop that goes on with every message, also one whose character
\* charMap does not know.
NextAny(tk, charMap) ==
  IF tk.lmIndex < Len(tk.lmMsgs) THEN tk.lmIndex + 1 ELSE 0

\* The position in tk.lmMsgs, after tk.lmIndex, of the next top message
\* whose character charMap knows; 0 when there is none.
NextTop(tk, charMap) ==
  LET known(j) == \E i \in DOMAIN charMap :
                    charMap[i] = tk.lmMsgs[j].characterId
      rest == {j \in (tk.lmIndex + 1)..Len(tk.lmMsgs) : known(j)}
  IN IF rest = {} THEN 0 ELSE CHOOSE j \in rest : \A k \in rest : j <= k

\* The loop over the top messages goes on: the find of the newest comment
\* of the next one is issued, or fetchData returns.
TopNext(p, tk) ==
  IF NextTop(tk, tk.charMap) = 0 THEN Finish(p, tk)
  ELSE /\ task' = [task EXCEPT ![p] =
                     [tk EXCEPT !.pc = "ftComment",
                                !.lmIndex = NextTop(tk, tk.charMap)]]
       /\ UNCHANGED editVars

\* The answer of the find of the characters of the top messages: they
\* become the view, each at the index charMap keeps for it.
TopChars(p) ==
  LET tk == task[p]
      ids == {tk.lmMsgs[j].characterId : j \in DOMAIN tk.lmMsgs}
      cs == SortBy({d \in Find(storageCharacters, [_id |-> ids]) :
                      d.type = "character"}, "_id", FALSE)
  IN /\ tk.pc = "ftChars"
     /\ characters' = [i \in 1..Len(cs) |-> mapCharacterDoc(cs[i])]
     /\ LET t1 == [tk EXCEPT !.charMap = [i \in 1..Len(cs) |-> cs[i]._id],
                              !.lmIndex = 0]
        IN IF cs = <<>> THEN TopNext(p, t1)
           ELSE CallLoadMedia(p, t1, "ftMedia", t1.charMap)
     /\ UNCHANGED <<storeVars, syncVars, now, initial, uiVars, refreshVars, queryVars>>

\* The answer of the find of the newest comment of a top message: the
\* message is pushed onto the entry now at the index of its character;
\* reading .data of no entry is a TypeError for the catch of fetchData.
TopComment(p) ==
  LET tk == task[p]
      m == tk.lmMsgs[tk.lmIndex]
      idx == IF \E i \in DOMAIN tk.charMap : tk.charMap[i] = m.characterId
             THEN CHOOSE i \in DOMAIN tk.charMap :
                    tk.charMap[i] = m.characterId
             ELSE 0
  IN /\ tk.pc = "ftComment"
     /\ UNCHANGED <<storeVars, syncVars, now, initial, uiVars, refreshVars, queryVars>>
     /\ IF HasEntry(characters, idx)
        THEN /\ characters' =
                  [characters EXCEPT ![idx].data.messages =
                     Append(@, MessageUI(m, LatestComment(m._id)))]
             /\ CallLoadMedia(p, tk, "ftMsgMedia", <<m._id>>)
        ELSE /\ UNCHANGED characters
             /\ Thrown(p, tk)

\* ------------------------------------------------- loading the media URLs
\* The awaits of loadMessageMediaUrl (of loadMessagesForCharacter, of the
\* loop over the top or found messages) and of loadCharacterMediaUrl (of
\* saveEdit and likeCharacter, of the loops over the characters fetched,
\* of refreshCharacterById), and the one that ends the attach handlers.
MediaPcs ==
  {"lmMedia", "ftMsgMedia", "cMedia", "fdMedia", "ftMedia", "rcMedia",
   "mMedia"}

\* The collection whose blobs the handler at a media await asks for.
MediaOf(tk) ==
  IF tk.pc \in {"lmMedia", "ftMsgMedia"} THEN "msgs"
  ELSE IF tk.pc = "mMedia" THEN tk.db ELSE "chars"

\* The last media URL the handler asked for is loaded: it goes on.
AfterMedia(p, tk) ==
  CASE tk.pc = "lmMedia" -> AfterLoad(p, [tk EXCEPT !.lmUi = <<>>])
    [] tk.pc = "fdMedia" -> AfterLoad(p, tk)
    [] tk.pc \in {"ftMedia", "ftMsgMedia"} -> TopNext(p, tk)
    [] tk.pc = "rcMedia" -> CallRefreshMessages(p, tk, characters)
    [] OTHER -> Finish(p, tk)

\* The answer of the getAttachment of the media URL the handler waits for.
LoadMedia(p) ==
  LET tk == task[p]
      name == MediaOf(tk)
      t1 == [tk EXCEPT !.mediaIds = Tail(tk.mediaIds)]
  IN /\ tk.pc \in MediaPcs
     /\ SetMedia(name, loadMediaUrl(MediaTable(name), objectUrls, Db(name),
                                    Head(tk.mediaIds)))
     /\ UNCHANGED <<storeVars, characters, syncVars, now, initial, refreshVars,
                    queryVars>>
     /\ IF t1.mediaIds # <<>>
        THEN task' = [task EXCEPT ![p] = t1] /\ UNCHANGED editVars
        ELSE AfterMedia(p, t1)
     /\ visibleComments' = Visible(tk, task'[p])

\* ------------------------------------------------------------ the searches
\* textLower: {$gte: q, $lte: q + '\uffff'}
InPrefixRange(t, q) == StrLeq(q, t) /\ StrLeq(t, q \o <<65535>>)

\* A set of messages in the order of sort textLower asc, createdAt desc.
RECURSIVE SortByText(_)
SortByText(S) ==
  IF S = {} THEN <<>>
  ELSE LET first == CHOOSE d \in S : \A e \in S :
                      \/ d = e
                      \/ StrLess(d.textLower, e.textLower)
                      \/ /\ d.textLower = e.textLower
                         /\ \/ d.createdAt > e.createdAt
                            \/ /\ d.createdAt = e.createdAt
                               /\ d._id[2] < e._id[2]
       IN <<first>> \o SortByText(S \ {first})

\* The find of searchMessages on the messages `db` for query q.
SearchMessages(db, q) ==
  LET all == SortByText({m \in Find(db, [type |-> {"message"}]) :
                           InPrefixRange(m.textLower, q)})
  IN SubSeq(all, 1, IF Len(all) < SEARCH_LIMIT THEN Len(all)
                    ELSE SEARCH_LIMIT)

\* The search button of the messages, with `text` in the input: a blank
\* query resets the sort and fetches the full view, any other issues the
\* find of the range.
searchMessages(p, text) ==
  LET q == toLowerCase(trim(text))
      t0 == [IdleTask EXCEPT !.op = "searchMessages", !.q = q]
  IN /\ CanStart(p)
     /\ IF q = <<>>
        THEN /\ sortByLikes' = FALSE
             /\ topMessagesPage' = 0
             /\ StartFetch(p, t0, FALSE, 0)
        ELSE /\ task' = [task EXCEPT ![p] = [t0 EXCEPT !.pc = "smFind"]]
             /\ UNCHANGED <<editVars, sortByLikes, topMessagesPage>>
     /\ UNCHANGED <<storeVars, characters, syncVars, now, initial, uiVars,
                    refreshVars, orderByLikesForChar, indexes>>

\* The answer of the find of searchMessages: no message empties the view,
\* else the find of their characters is issued and the handler goes on as
\* the fetch of the top messages does.
SearchFind(p) ==
  LET tk == task[p]
      found == SearchMessages(storageMessages, tk.q)
  IN /\ tk.pc = "smFind"
     /\ UNCHANGED <<storeVars, syncVars, now, initial, uiVars, refreshVars, queryVars>>
     /\ IF found = <<>>
        THEN /\ characters' = <<>>
             /\ Finish(p, tk)
        ELSE /\ task' = [task EXCEPT ![p] =
                           [tk EXCEPT !.pc = "ftChars", !.lmMsgs = found]]
             /\ UNCHANGED <<characters, editVars>>

\* The search button of the affiliations, with `text` in the input.
searchByAffiliation(p, text) ==
  LET val == toLowerCase(trim(text))
      t0 == [IdleTask EXCEPT !.op = "searchByAffiliation", !.q = val]
  IN /\ CanStart(p)
     /\ IF val = <<>>
        THEN /\ sortByLikes' = FALSE
             /\ topMessagesPage' = 0
             /\ StartFetch(p, t0, FALSE, 0)
        ELSE /\ task' = [task EXCEPT ![p] = [t0 EXCEPT !.pc = "saFind"]]
             /\ UNCHANGED <<editVars, sortByLikes, topMessagesPage>>
     /\ UNCHANGED <<storeVars, characters, syncVars, now, initial, uiVars,
                    refreshVars, orderByLikesForChar, indexes>>

\* The answer of the find of searchByAffiliation: the characters of that
\* affiliation become the view and reloadAllMessages starts.
AffiliationFind(p) ==
  LET tk == task[p]
      cs == SortBy(Find(storageCharacters,
                        [type |-> {"character"}, affiliationLower |-> {tk.q}]),
                   "_id", FALSE)
  IN /\ tk.pc = "saFind"
     /\ characters' = [i \in 1..Len(cs) |-> mapCharacterDoc(cs[i])]
     /\ LET t1 == [tk EXCEPT !.fetch = "full", !.lmIndex = 0]
        IN IF cs = <<>> THEN AfterLoad(p, t1)
           ELSE CallLoadMedia(p, t1, "fdMedia",
                              [i \in 1..Len(cs) |-> cs[i]._id])
     /\ UNCHANGED <<storeVars, syncVars, now, initial, uiVars, refreshVars, queryVars>>

\* ----------------------------------------- the global sort and its pages
toggleSortByLikes(p) ==
  /\ CanStart(p)
  /\ sortByLikes' = ~sortByLikes
  /\ topMessagesPage' = 0
  /\ StartFetch(p, [IdleTask EXCEPT !.op = "toggleSortByLikes"],
                ~sortByLikes, 0)
  /\ UNCHANGED <<storeVars, characters, syncVars, now, initial, uiVars, refreshVars,
                 orderByLikesForChar, indexes>>

\* The arrows of the pagination, shown while the global sort is on; the
\* left one is disabled on page 0.
nextTopMessagesPage(p) ==
  /\ CanStart(p)
  /\ sortByLikes
  /\ topMessagesPage < MaxPage
  /\ topMessagesPage' = topMessagesPage + 1
  /\ StartFetch(p, [IdleTask EXCEPT !.op = "nextTopMessagesPage"],
                TRUE, topMessagesPage + 1)
  /\ UNCHANGED <<storeVars, characters, syncVars, now, initial, uiVars, refreshVars,
                 sortByLikes, orderByLikesForChar, indexes>>

\* A handler that steps back whatever the page is.
prevAlways(p) ==
  /\ CanStart(p)
  /\ sortByLikes
  /\ topMessagesPage' = topMessagesPage - 1
  /\ StartFetch(p, [IdleTask EXCEPT !.op = "prevTopMessagesPage"],
                TRUE, topMessagesPage - 1)
  /\ UNCHANGED <<storeVars, characters, syncVars, now, initial, uiVars, refreshVars,
                 sortByLikes, orderByLikesForChar, indexes>>

\* prevTopMessagesPage: on page 0 it returns at once.
prevTopMessagesPage(p) ==
  /\ CanStart(p)
  /\ sortByLikes
  /\ IF topMessagesPage > 0
     THEN /\ topMessagesPage' = topMessagesPage - 1
          /\ StartFetch(p, [IdleTask EXCEPT !.op = "prevTopMessagesPage"],
                        TRUE, topMessagesPage - 1)
     ELSE /\ UNCHANGED topMessagesPage
          /\ Finish(p, [IdleTask EXCEPT !.op = "prevTopMessagesPage"])
  /\ UNCHANGED <<storeVars, characters, syncVars, now, initial, uiVars, refreshVars,
                 sortByLikes, orderByLikesForChar, indexes>>

\* The characters fetchData(true) finds for the top messages `ms`.
TopCharacters(ms) ==
  SortBy({d \in Find(storageCharacters,
                     [_id |-> {ms[j].characterId : j \in DOMAIN ms}]) :
            d.type = "character"}, "_id", FALSE)

\* The view a fetchData(true) that nothing interleaves with builds from
\* the top messages `ms` and their characters `cs`.
TopView(ms, cs) ==
  [i \in 1..Len(cs) |->
     [mapCharacterDoc(cs[i]) EXCEPT !.data.messages =
        LET mine == SelectSeq(ms, LAMBDA m : m.characterId = cs[i]._id)
        IN [j \in 1..Len(mine) |->
              MessageUI(mine[j], LatestComment(mine[j]._id))]]]

\* --------------------------------------------------- the refresh callback
\* A callback that looks at the full-reload flag first.
FlagFirst(sort, flag) ==
  IF flag THEN "full" ELSE IF sort THEN "top" ELSE "none"

\* The fetchData the callback calls: the top messages when the global sort
\* is on, else the full one when the flag is set, else none.
Pass(sort, flag) ==
  IF sort THEN "top" ELSE IF flag THEN "full" ELSE "none"

\* Array.from(set): the elements of the set in the order of their insertion,
\* which is any order.
RECURSIVE ArraysFrom(_)
ArraysFrom(S) ==
  IF S = {} THEN {<<>>}
  ELSE UNION {{<<x>> \o a : a \in ArraysFrom(S \ {x})} : x \in S}

\* An armed timeout of scheduleTargetedRefresh elapses and its callback
\* runs up to its first await.
TimerFire(p) ==
  LET t0 == [IdleTask EXCEPT !.op = "refresh"]
      pass == Pass(sortByLikes, pendingNeedFullReload)
  IN /\ timeouts > 0
     /\ CanStart(p)
     /\ timeouts' = timeouts - 1
     /\ syncRefreshTimer' = FALSE
     /\ pendingCharIds' = {} /\ pendingMsgIds' = {}
     /\ pendingNeedFullReload' =
          IF pass = "none" THEN pendingNeedFullReload ELSE FALSE
     /\ IF pass # "none"
        THEN StartFetch(p, t0, pass = "top", topMessagesPage)
        ELSE \E cs \in ArraysFrom(pendingCharIds),
                ms \in ArraysFrom(pendingMsgIds) :
               RefreshNext(p, [t0 EXCEPT !.charIds = cs, !.msgIds = ms],
                           characters)
     /\ UNCHANGED <<storeVars, characters, syncVars, now, initial, uiVars, changes,
                    queryVars>>

\* The answer of the get of refreshCharacterById: the entry at idx is
\* replaced (200), or removed (404), or the list of the characters is
\* fetched when the view had no entry for the character.
RefreshGet(p) ==
  LET tk == task[p]
      cid == Head(tk.charIds)
      d == IF cid \in DOMAIN storageCharacters THEN storageCharacters[cid]
           ELSE NoDoc
  IN /\ tk.pc = "rcGet"
     /\ UNCHANGED <<storeVars, syncVars, now, initial, uiVars, refreshVars, queryVars>>
     /\ IF Live(d)
        THEN IF d.type # "character"
             THEN /\ UNCHANGED characters
                  /\ CallRefreshMessages(p, tk, characters)
             ELSE /\ characters' =
                       IF tk.rcIdx > 0
                       THEN SetEntry(characters, tk.rcIdx, mapCharacterDoc(d))
                       ELSE characters
                  /\ task' = [task EXCEPT ![p] =
                                IF tk.rcIdx > 0
                                THEN [tk EXCEPT !.pc = "rcMedia",
                                                !.mediaIds = <<cid>>]
                                ELSE [tk EXCEPT !.pc = "rcFind"]]
                  /\ UNCHANGED editVars
        ELSE /\ characters' = IF tk.rcIdx > 0
                              THEN Splice(characters, tk.rcIdx)
                              ELSE characters
             /\ CallRefreshMessages(p, tk, characters')

\* The answer of the find of fetchCharactersOnly: the view becomes the
\* list of the characters, none with a message, and their media are loaded.
RefreshFind(p) ==
  LET tk == task[p]
      cs == SortBy(Find(storageCharacters, [type |-> {"character"}]),
                   "_id", FALSE)
  IN /\ tk.pc = "rcFind"
     /\ characters' = [i \in 1..Len(cs) |-> mapCharacterDoc(cs[i])]
     /\ IF cs = <<>> THEN CallRefreshMessages(p, tk, characters')
        ELSE CallLoadMedia(p, tk, "rcMedia", [i \in 1..Len(cs) |-> cs[i]._id])
     /\ UNCHANGED <<storeVars, syncVars, now, initial, uiVars, refreshVars,
                    queryVars>>

\* --------------------------------------------------- the sync controller
\* A guard that opens a session whatever the handle holds.
AlwaysOpens(handle) == TRUE

\* if (!syncChars) / if (!syncMsgs): only a null handle gets a session.
NeedsSession(handle) == handle = 0

\* The sessions of collection `name` once startSync has run.
Opened(name, by) ==
  IF NeedsSession(Handle(name))
  THEN Append(sessions[name], [state |-> "open", by |-> by])
  ELSE sessions[name]

\* startSync(): both databases exist from the first lines of initDatabase
\* on, so the early return is never taken.  `by` is the caller.
startSync(by) ==
  /\ syncChars' = IF NeedsSession(syncChars) THEN Len(sessions.chars) + 1
                  ELSE syncChars
  /\ syncMsgs' = IF NeedsSession(syncMsgs) THEN Len(sessions.msgs) + 1
                 ELSE syncMsgs
  /\ sessions' = [chars |-> Opened("chars", by), msgs |-> Opened("msgs", by)]

\* The sessions of collection `name` once stopSync has run.
Cancelled(name) ==
  IF Handle(name) # 0
  THEN [sessions[name] EXCEPT ![Handle(name)].state = "cancelled"]
  ELSE sessions[name]

stopSync ==
  /\ syncChars' = 0
  /\ syncMsgs' = 0
  /\ sessions' = [chars |-> Cancelled("chars"), msgs |-> Cancelled("msgs")]

toggleOnline ==
  /\ isOnline' = ~isOnline
  /\ IF ~isOnline
     THEN /\ Len(sessions.chars) < MaxSessions
          /\ Len(sessions.msgs) < MaxSessions
          /\ startSync("toggleOnline")
     ELSE stopSync
  /\ UNCHANGED <<storeVars, characters, initPc, editVars, now, task, initial, uiVars, refreshVars, queryVars>>

\* ----------------------------------------------------------- initDatabase
\* What the createIndex calls of one store can come to: all of them
\* answered, or one of them thrown into the catch that only logs it.
IndexOutcomes == {"created", "failed"}

\* await createIndexesCharacters()
InitIndexesCharacters ==
  /\ initPc = "createIndexesCharacters"
  /\ initPc' = "createIndexesMessages"
  /\ \E outcome \in IndexOutcomes :
       indexes' = [indexes EXCEPT !.chars = outcome]
  /\ UNCHANGED <<storeVars, characters, isOnline, syncChars, syncMsgs,
                 sessions, editVars, now, task, initial, uiVars, refreshVars,
                 sortByLikes, topMessagesPage, orderByLikesForChar>>

\* await createIndexesMessages(), then the call of fetchData().
InitIndexesMessages ==
  /\ initPc = "createIndexesMessages"
  /\ initPc' = "fetchData"
  /\ \E outcome \in IndexOutcomes :
       indexes' = [indexes EXCEPT !.msgs = outcome]
  /\ task' = [task EXCEPT ![0] =
                [IdleTask EXCEPT !.op = "fetchData", !.pc = "fdFind"]]
  /\ UNCHANGED <<storeVars, characters, isOnline, syncChars, syncMsgs,
                 sessions, editVars, now, initial, uiVars, refreshVars,
                 sortByLikes, topMessagesPage, orderByLikesForChar>>

\* fetchData() has returned: startSync(), whatever isOnline says.
InitStartSync ==
  /\ initPc = "fetchData"
  /\ task[0].pc = "done"
  /\ initPc' = "done"
  /\ startSync("initDatabase")
  /\ UNCHANGED <<storeVars, characters, isOnline, editVars, now, task,
                 initial, uiVars, refreshVars, queryVars>>

\* ------------------------------------------------------------ initial states
\* A store holding `docs`, each at its first revision.
StoreOf(ids, docs) ==
  [i \in ids |-> IF \E d \in docs : d._id = i
                 THEN [(CHOOSE d \in docs : d._id = i) EXCEPT !._rev = 1]
                 ELSE NoDoc]

\* initDatabase has completed: the view is loaded and both sessions are live.
MountedState(chars, msgs) ==
  /\ storageCharacters = StoreOf(CharDbIds, chars)
  /\ storageMessages = StoreOf(MsgDbIds, msgs)
  /\ initial = [chars |-> storageCharacters, msgs |-> storageMessages]
  /\ characters = FullView
  /\ isOnline = TRUE
  /\ syncChars = 1 /\ syncMsgs = 1
  /\ sessions = [chars |-> <<[state |-> "open", by |-> "initDatabase"]>>,
                 msgs |-> <<[state |-> "open", by |-> "initDatabase"]>>]
  /\ initPc = "done"
  /\ editingIndex = 0 /\ editingCharacter = <<>>
  /\ editingMessageIndex = <<>> /\ editingMessageText = <<>>
  /\ editingCommentIndex = <<>> /\ editingCommentText = <<>>
  /\ now = MaxTime
  /\ pendingCharIds = {} /\ pendingMsgIds = {}
  /\ pendingNeedFullReload = FALSE
  /\ syncRefreshTimer = FALSE /\ timeouts = 0
  /\ changes = {}
  /\ sortByLikes = FALSE /\ topMessagesPage = 0
  /\ orderByLikesForChar = {}
  /\ indexes = [chars |-> "created", msgs |-> "created"]
  /\ visibleComments = {}
  /\ MediaLoaded

\* The same, with the fetchData() of initDatabase in slot 0 and no handler
\* invoked yet.
Mounted(chars, msgs) ==
  /\ MountedState(chars, msgs)
  /\ task = [p \in AllTasks |->
               IF p = 0
               THEN Returned([IdleTask EXCEPT !.op = "fetchData"], "pending")
               ELSE IdleTask]

\* -------------------------------------------- two likes of one character
InitLikes ==
  \E l1 \in 0..1, l2 \in 0..1, withMsgs \in BOOLEAN :
    Mounted({CharacterDoc(1, "Luke", 19, <<65>>, TRUE, l1),
             CharacterDoc(2, "Rey", 20, <<97>>, FALSE, l2)},
            IF withMsgs THEN {MessageDoc(1, CharId(1), <<65>>, 1)} ELSE {})

NextLikes ==
  \/ \E p \in 1..2 : likeCharacter(p, 1)
  \/ \E p \in 1..2 : SaveGet(p)
  \/ \E p \in 1..2 : SavePut(p)
  \/ \E p \in 1..2 : LoadFind(p)
  \/ \E p \in 1..2 : LoadComment(p)
  \/ \E p \in 1..2 : LoadMedia(p)

SpecLikes == InitLikes /\ [][NextLikes]_vars

\* C2: two likeCharacter calls on the same character, interleaved in any
\* order at their get and put, both return a document, and once both have
\* returned the stored likes are the initial likes plus 2.
C2_TwoLikesBothLand ==
  /\ \A p \in 1..2 : task[p].result # "null"
  /\ (\A p \in 1..2 : task[p].result = "doc")
       => storageCharacters[CharId(1)].likes
            = initial.chars[CharId(1)].likes + 2

\* Both calls have finished and one of them lost a put race on the way.
C2_Witness ==
  /\ \A p \in 1..2 : task[p].pc = "done" /\ task[p].op = "likeCharacter"
  /\ \E p \in 1..2 : task[p].attempt = 1 /\ task[p].result = "doc"
  /\ storageCharacters[CharId(1)].likes = initial.chars[CharId(1)].likes + 2

\* ------------------------------- the retry loops against a remote writer
InitRetry ==
  Mounted({CharacterDoc(1, "Luke", 19, <<65>>, TRUE, 0),
           CommentDoc(1, MsgId(1), <<65>>, 1)},
          {MessageDoc(1, CharId(1), <<65>>, 1)})

NextRetry ==
  \/ \E p \in Tasks : likeMessage(p, 1, 1)
  \/ \E p \in Tasks : SaveGet(p)
  \/ \E p \in Tasks : SavePut(p)
  \/ \E p \in Tasks : LoadFind(p)
  \/ \E p \in Tasks : LoadComment(p)
  \/ \E p \in Tasks : LoadMedia(p)
  \/ pull("msgs", MsgId(1), RemoteLike(storageMessages[MsgId(1)]))

SpecRetry == InitRetry /\ [][NextRetry]_vars

\* The positions inside the two retry loops, each waiting for a storage call.
LoopPcs == {"get", "put", "rmGet", "rmRemove"}

SaveOps == {"likeCharacter", "likeMessage", "saveEdit", "saveEditMessage",
            "saveEditComment"}

\* C1: when every put of saveWithConflictRetry is answered 409, the update
\* returns null after exactly 3 gets and 3 puts, and no put that was answered
\* 409 has changed a stored document.
C1_RetryExhaustion ==
  /\ [](\A p \in Tasks :
          (task[p].op \in SaveOps /\ task[p].result = "null"
             /\ task[p].lastError = 409)
            => task[p].attempt = 3 /\ task[p].gets = 3 /\ task[p].puts = 3)
  /\ [](\A p \in Tasks :
          (task[p].op \in SaveOps /\ task[p].puts = task[p].attempt
             /\ task[p].lastError \in {0, 409} /\ task[p].gets > 0)
            => task[p].result # "doc" /\ task[p].gets <= 3)
  /\ [][\A p \in Tasks :
          (task[p].pc = "put" /\ task'[p].puts = task[p].puts + 1
             /\ task'[p].lastError = 409 /\ task'[p].attempt = task[p].attempt + 1)
            => storageCharacters' = storageCharacters
               /\ storageMessages' = storageMessages]_vars

\* A like has given up after three conflicts with the remote writer, whose
\* three likes are the ones stored.
C1_Witness ==
  \E p \in Tasks :
    /\ task[p].op = "likeMessage" /\ task[p].pc = "done"
    /\ task[p].result = "null" /\ task[p].attempt = 3
    /\ Live(storageMessages[MsgId(1)])
    /\ storageMessages[MsgId(1)].likes = 3
    /\ storageMessages[MsgId(1)]._rev = 4

\* ------------------- the retry loops against errors that are no conflict
NextAbandon ==
  \/ \E p \in Tasks : likeMessage(p, 1, 1)
  \/ \E p \in Tasks : deleteComment(p, 1, 1, 1, TRUE)
  \/ \E p \in Tasks : SaveGet(p)
  \/ \E p \in Tasks : SavePut(p)
  \/ \E p \in Tasks : SaveFails(p)
  \/ \E p \in Tasks : RemoveGet(p)
  \/ \E p \in Tasks : RemoveDoc(p)
  \/ \E p \in Tasks : RemoveFails(p)
  \/ \E p \in Tasks : LoadFind(p)
  \/ \E p \in Tasks : LoadComment(p)
  \/ \E p \in Tasks : LoadMedia(p)
  \/ pull("msgs", MsgId(1), RemoteDelete(storageMessages[MsgId(1)]))
  \/ pull("chars", CmtId(1), RemoteEdit(storageCharacters[CmtId(1)], <<97>>))

SpecAbandon == InitRetry /\ [][NextAbandon]_vars

\* C4: an error other than a 409 in the get or the put (remove) of a retry
\* loop, a 404 on the get included, ends the loop in that attempt: no further
\* storage call of the loop, null (false) returned; every further get of a
\* loop follows a 409.
C4_OtherErrorsAbandon ==
  \A p \in Tasks :
    /\ task[p].lastError \notin {0, 409}
         => /\ task[p].pc \notin LoopPcs
            /\ task[p].result \in {"null", "false"}
            /\ task[p].gets = task[p].attempt + 1
            /\ task[p].puts \in {task[p].attempt, task[p].attempt + 1}
    /\ task[p].gets <= task[p].attempt + 1

\* An update lost a put race and then met a 404 on its next get, the remote
\* writer having deleted the document: it returned null there.
C4_Witness ==
  \E p \in Tasks :
    /\ task[p].op = "likeMessage" /\ task[p].lastError = 404
    /\ task[p].attempt = 1 /\ task[p].gets = 2 /\ task[p].puts = 1
    /\ task[p].result = "null" /\ task[p].pc = "done"

\* ------------------------------- an edit of a message against its likes
NextEditMessage ==
  \/ startEditMessage(1, 1)
  \/ typeMessageText(<<97>>)
  \/ cancelEditMessage
  \/ \E p \in Tasks : saveEditMessage(p)
  \/ \E p \in Tasks : likeMessage(p, 1, 1)
  \/ \E p \in Tasks : SaveGet(p)
  \/ \E p \in Tasks : SavePut(p)
  \/ \E p \in Tasks : LoadFind(p)
  \/ \E p \in Tasks : LoadComment(p)
  \/ \E p \in Tasks : LoadMedia(p)

SpecEditMessage == InitRetry /\ [][NextEditMessage]_vars

\* The fields of a document other than its revision and those in `touched`.
SameBut(a, b, touched) ==
  \A f \in (DOMAIN a) \ ({"_rev"} \cup touched) : a[f] = b[f]

\* The fields the mergeFn of handler `op` assigns.
Touched(op) ==
  CASE op \in {"likeCharacter", "likeMessage"} -> {"likes"}
    [] op = "saveEdit" -> {"name", "age", "affiliation", "affiliationLower",
                           "lightsaber", "likes"}
    [] op = "saveEditMessage" -> {"text", "textLower"}
    [] op = "saveEditComment" -> {"text"}
    [] OTHER -> {}

\* C3: the document a successful put of saveWithConflictRetry writes is the
\* mergeFn of the revision read by the get of the same attempt, and that
\* revision is the one stored when the put is applied: every field the
\* merge does not assign keeps its latest stored value (an edit of a message
\* keeps the likes a concurrent writer added, a like keeps the edited text).
C3_MergeOnLatest ==
  [][\A p \in Tasks :
       (task[p].pc = "put" /\ task'[p].puts = task[p].puts + 1
          /\ Db(task[p].db)' # Db(task[p].db))
         => LET old == Db(task[p].db)[task[p].id]
                new == Db(task[p].db)'[task[p].id]
            IN /\ task[p].latestDoc = old
               /\ new = [task[p].mergedDoc EXCEPT !._rev = old._rev + 1]
               /\ SameBut(new, old, Touched(task[p].op))
               /\ task[p].op = "likeMessage" => new.likes = old.likes + 1
               /\ task[p].op = "saveEditMessage"
                    => new.textLower = toLowerCase(new.text)]_vars

\* An edit that lost a put race to a like was replayed on the liked revision:
\* the stored message has the new text and the likes of the other writers.
C3_Witness ==
  \E p \in Tasks :
    /\ task[p].op = "saveEditMessage" /\ task[p].result = "doc"
    /\ task[p].attempt >= 1
    /\ storageMessages[MsgId(1)].text = <<97>>
    /\ initial.msgs[MsgId(1)].text = <<65>>
    /\ storageMessages[MsgId(1)].likes = 1
    /\ \E q \in Tasks : task[q].op = "likeMessage" /\ task[q].result = "doc"

\* ---------------------------- an edit of a character against its likes
NextEditCharacter ==
  \/ startEdit(1)
  \/ \E p \in Tasks : saveEdit(p, 1)
  \/ \E p \in Tasks : SaveGet(p)
  \/ \E p \in Tasks : SavePut(p)
  \/ \E p \in Tasks : LoadFind(p)
  \/ \E p \in Tasks : LoadComment(p)
  \/ \E p \in Tasks : LoadMedia(p)
  \/ pull("chars", CharId(1), RemoteLike(storageCharacters[CharId(1)]))
  \/ pull("chars", CharId(1), RemoteStale(storageCharacters[CharId(1)]))

SpecEditCharacter == InitRetry /\ [][NextEditCharacter]_vars

\* C5: the likes saveEdit writes are the max of the likes of the revision
\* read in the attempt that succeeds and the likes of the edit-form copy, so
\* the write never lowers the stored likes: the likes other writers added
\* since startEdit are kept.
C5_SaveEditKeepsLikes ==
  [][\A p \in Tasks :
       task[p].op = "saveEdit" =>
         /\ (task[p].pc = "get" /\ task'[p].pc = "put")
              => task'[p].mergedDoc.likes
                   = Max(storageCharacters[task[p].id].likes,
                         editingCharacter[1].likes)
         /\ (task[p].pc = "put" /\ task'[p].puts = task[p].puts + 1
               /\ storageCharacters' # storageCharacters)
              => LET old == storageCharacters[task[p].id]
                     new == storageCharacters'[task[p].id]
                 IN /\ old = task[p].latestDoc
                    /\ new.likes = task[p].mergedDoc.likes
                    /\ new.likes >= old.likes]_vars

\* An edit opened on a character without likes has been written after two
\* likes had arrived: the form still holds 0 likes, the stored character
\* and the view hold both likes.
C5_Witness ==
  \E p \in Tasks :
    /\ task[p].op = "saveEdit" /\ task[p].result = "doc"
    /\ task[p].pc = "lmFind"
    /\ editingIndex = 1 /\ editingCharacter[1].likes = 0
    /\ storageCharacters[CharId(1)].likes = 2
    /\ characters[1].data.likes = 2

\* ------------------------------------------ the local creates and updates
NextLocal ==
  \/ \E p \in Tasks, c \in NewCharacters :
       c.affiliation = <<32, 65>> /\ addCharacter(p, c)
  \/ \E p \in Tasks : addMessage(p, 1, <<32, 65>>)
  \/ startEdit(1)
  \/ typeAffiliation(<<32, 65>>)
  \/ \E p \in Tasks : saveEdit(p, 1)
  \/ startEditMessage(1, 1)
  \/ typeMessageText(<<32, 65>>)
  \/ \E p \in Tasks : saveEditMessage(p)
  \/ \E p \in Tasks : likeCharacter(p, 1)
  \/ \E p \in Tasks : likeMessage(p, 1, 1)
  \/ \E p \in Tasks : attachMediaToCharacter(p, CharId(1), "image/png")
  \/ \E p \in Tasks : removeMediaFromCharacter(p, CharId(1), TRUE)
  \/ \E p \in Tasks : attachMediaToMessage(p, MsgId(1), "")
  \/ \E p \in Tasks : removeMediaFromMessage(p, MsgId(1), TRUE)
  \/ \E p \in Tasks : SaveGet(p)
  \/ \E p \in Tasks : SavePut(p)
  \/ \E p \in Tasks : CreatePut(p)
  \/ \E p \in Tasks : MediaGet(p)
  \/ \E p \in Tasks : MediaAttachment(p)
  \/ \E p \in Tasks : MediaPut(p)
  \/ \E p \in Tasks : LoadFind(p)
  \/ \E p \in Tasks : LoadComment(p)
  \/ \E p \in Tasks : LoadMedia(p)

SpecLocal == InitRetry /\ [][NextLocal]_vars

\* The stored characters and messages.
Liked(name) ==
  {d \in {Db(name)[i] : i \in DOMAIN Db(name)} :
     Live(d) /\ d.type \in {"character", "message"}}

\* C6: over the local operations (create, saveEdit, saveEditMessage, like,
\* attach and remove media) in every interleaving, the likes of every stored
\* character and message are >= 0, the put of a like that succeeds raises
\* them by exactly 1, and no write lowers the likes stored just before it.
C6_LikesNeverLowered ==
  /\ [](\A name \in {"chars", "msgs"} : \A d \in Liked(name) : d.likes >= 0)
  /\ [][\A name \in {"chars", "msgs"} : \A i \in DOMAIN Db(name) :
          LET old == Db(name)[i]
              new == Db(name)'[i]
          IN (new # old /\ Live(old)) =>
               /\ new.likes >= old.likes
               /\ \A p \in Tasks :
                    (task[p].op \in {"likeCharacter", "likeMessage"}
                       /\ task[p].pc = "put" /\ task'[p].puts = task[p].puts + 1
                       /\ task[p].db = name /\ task[p].id = i)
                      => new.likes = old.likes + 1]_vars

\* A like and a media upload on the same character have both been written.
C6_Witness ==
  /\ \E p \in Tasks : task[p].op = "likeCharacter" /\ task[p].result = "doc"
  /\ \E p \in Tasks : /\ task[p].op = "attachMediaToCharacter"
                      /\ task[p].result = "doc" /\ task[p].pc = "done"
  /\ storageCharacters[CharId(1)].likes = 1
  /\ storageCharacters[CharId(1)].media
  /\ storageCharacters[CharId(1)].mediaContentType = "image/png"

\* C7: after any local create or update, every stored character has
\* affiliationLower = lowercase(affiliation) and every stored message has
\* textLower = lowercase(text).
C7_DerivedFields ==
  /\ \A i \in CharDbIds :
       LET d == storageCharacters[i]
       IN (Live(d) /\ d.type = "character")
            => d.affiliationLower = toLowerCase(d.affiliation)
  /\ \A i \in MsgDbIds :
       LET d == storageMessages[i]
       IN Live(d) => d.textLower = toLowerCase(d.text)

\* An edit has given the character an affiliation with a capital letter and
\* a message typed with a leading blank and a capital letter was created.
C7_Witness ==
  /\ storageCharacters[CharId(1)].affiliation = <<32, 65>>
  /\ storageCharacters[CharId(1)].affiliationLower = <<32, 97>>
  /\ Live(storageMessages[MsgId(MaxTime)])
  /\ storageMessages[MsgId(MaxTime)].text = <<65>>
  /\ storageMessages[MsgId(MaxTime)].textLower = <<97>>

\* ----------------------------------- the cascades against other handlers
\* One character with two messages, the older one commented.
InitCascade ==
  Mounted({CharacterDoc(1, "Luke", 19, <<65>>, TRUE, 0),
           CommentDoc(1, MsgId(1), <<65>>, 1)},
          {MessageDoc(1, CharId(1), <<65>>, 1),
           MessageDoc(2, CharId(1), <<97>>, 2)})

NextCascade ==
  \/ \E p \in Tasks : deleteCharacter(p, 1, TRUE)
  \/ \E p \in Tasks : deleteMessage(p, 1, 2, TRUE)
  \/ \E p \in Tasks : likeMessage(p, 1, 2)
  \/ \E p \in Tasks : addComment(p, 1, 2, <<97>>)
  \/ pull("msgs", MsgId(1), RemoteLike(storageMessages[MsgId(1)]))
  \/ pull("chars", CmtId(1), RemoteEdit(storageCharacters[CmtId(1)], <<97>>))
  \/ \E p \in Tasks : CascadeFindMessages(p)
  \/ \E p \in Tasks : CascadeFindComments(p)
  \/ \E p \in Tasks : CascadeBulkComments(p)
  \/ \E p \in Tasks : CascadeBulkMessages(p)
  \/ \E p \in Tasks : RemoveGet(p)
  \/ \E p \in Tasks : RemoveDoc(p)
  \/ \E p \in Tasks : SaveGet(p)
  \/ \E p \in Tasks : SavePut(p)
  \/ \E p \in Tasks : CreatePut(p)
  \/ \E p \in Tasks : LoadFind(p)
  \/ \E p \in Tasks : LoadComment(p)
  \/ \E p \in Tasks : LoadMedia(p)

SpecCascade == InitCascade /\ [][NextCascade]_vars

\* The messages of character `cid` that get() returns from the store `msgs`.
LiveMessagesOf(msgs, cid) ==
  {i \in MsgDbIds : Live(msgs[i]) /\ msgs[i].characterId = cid}

\* The comments get() returns from `chars` on the messages, deleted or not,
\* of character `cid`.
LiveCommentsOfCharacter(chars, msgs, cid) ==
  {i \in CharDbIds :
     /\ Live(chars[i]) /\ chars[i].type = "comment"
     /\ \E m \in MsgDbIds : msgs[m].characterId = cid /\ chars[i].messageId = m}

\* C8: at the moment deleteCharacter(id) completes, no message with
\* characterId = id and no comment on one of those messages is retrievable.
C8_CascadeComplete ==
  [][\A p \in Tasks :
       (task[p].op = "deleteCharacter" /\ task[p].pc # "done"
          /\ task'[p].pc = "done")
         => /\ LiveMessagesOf(storageMessages', task[p].id) = {}
            /\ LiveCommentsOfCharacter(storageCharacters', storageMessages',
                                       task[p].id) = {}]_vars

\* The comments get() returns on message `mid` in the store `chars`.
LiveCommentsOf(chars, mid) ==
  {i \in CharDbIds : /\ Live(chars[i]) /\ chars[i].type = "comment"
                     /\ chars[i].messageId = mid}

\* C9: when deleteMessage completes for message m no comment with messageId
\* = m is retrievable, and the steps of deleteMessage delete nothing but m
\* and the comments of m.
C9_MessageCascade ==
  [][\A p \in Tasks :
       (task[p].op = "deleteMessage" /\ task'[p] # task[p]) =>
         /\ task'[p].pc = "done"
              => LiveCommentsOf(storageCharacters', task[p].id) = {}
         /\ \A i \in CharDbIds :
              (Live(storageCharacters[i]) /\ ~Live(storageCharacters'[i]))
                => /\ storageCharacters[i].type = "comment"
                   /\ storageCharacters[i].messageId = task[p].id
         /\ \A i \in MsgDbIds :
              (Live(storageMessages[i]) /\ ~Live(storageMessages'[i]))
                => i = task[p].id]_vars

\* ------------------------------------- the sessions of the sync controller
\* The page has just been mounted: initDatabase has created the databases
\* and waits for its indexes; the stores hold what an earlier visit left.
InitSync ==
  /\ \E withDocs \in BOOLEAN :
       /\ storageCharacters =
            StoreOf(CharDbIds,
                    IF withDocs
                    THEN {CharacterDoc(1, "Luke", 19, <<65>>, TRUE, 0)}
                    ELSE {})
       /\ storageMessages =
            StoreOf(MsgDbIds,
                    IF withDocs THEN {MessageDoc(1, CharId(1), <<65>>, 1)}
                    ELSE {})
  /\ initial = [chars |-> storageCharacters, msgs |-> storageMessages]
  /\ characters = <<>>
  /\ isOnline = TRUE
  /\ syncChars = 0 /\ syncMsgs = 0
  /\ sessions = [chars |-> <<>>, msgs |-> <<>>]
  /\ initPc = "createIndexesCharacters"
  /\ editingIndex = 0 /\ editingCharacter = <<>>
  /\ editingMessageIndex = <<>> /\ editingMessageText = <<>>
  /\ editingCommentIndex = <<>> /\ editingCommentText = <<>>
  /\ now = MaxTime
  /\ task = [p \in AllTasks |-> IdleTask]
  /\ pendingCharIds = {} /\ pendingMsgIds = {}
  /\ pendingNeedFullReload = FALSE
  /\ syncRefreshTimer = FALSE /\ timeouts = 0
  /\ changes = {}
  /\ sortByLikes = FALSE /\ topMessagesPage = 0
  /\ orderByLikesForChar = {}
  /\ indexes = [chars |-> "none", msgs |-> "none"]
  /\ visibleComments = {}
  /\ MediaEmpty

NextSync ==
  \/ InitIndexesCharacters
  \/ InitIndexesMessages
  \/ FetchFind(0)
  \/ LoadFind(0)
  \/ LoadComment(0)
  \/ LoadMedia(0)
  \/ InitStartSync
  \/ toggleOnline
  \/ pull("chars", CharId(1), RemoteLike(storageCharacters[CharId(1)]))
  \/ pull("msgs", MsgId(1), RemoteLike(storageMessages[MsgId(1)]))
  \/ \E ev \in changes : handleSyncChange(ev)

SpecSync == InitSync /\ [][NextSync]_vars

Collections == {"chars", "msgs"}

\* C10: whatever startSync, stopSync and toggleOnline calls have been made,
\* each collection has at most one open session, and every open session is
\* the one its handle refers to, so that stopSync can cancel it: startSync
\* leaves a collection that has a live session alone.
C10_OneSessionPerCollection ==
  \A c \in Collections :
    /\ Cardinality({i \in DOMAIN sessions[c] :
                      sessions[c][i].state = "open"}) <= 1
    /\ \A i \in DOMAIN sessions[c] :
         sessions[c][i].state = "open" => Handle(c) = i

\* The user went offline and online again while initDatabase was loading:
\* the startSync of initDatabase found both sessions live and opened none.
C10_Witness ==
  /\ initPc = "done" /\ isOnline
  /\ \A c \in Collections :
       /\ sessions[c] = <<[state |-> "open", by |-> "toggleOnline"]>>
       /\ Handle(c) = 1

\* C11: the step that takes the application offline cancels every
\* replication session and clears both handles, and no step taken while the
\* application stays offline (the delivery of a change notification among
\* them) adds a dirty character or message id, sets the full-reload flag or
\* arms a refresh timeout.
C11_OfflineIsQuiet ==
  [][/\ (isOnline /\ ~isOnline') =>
          /\ syncChars' = 0 /\ syncMsgs' = 0
          /\ \A c \in Collections : \A i \in DOMAIN sessions'[c] :
               sessions'[c][i].state = "cancelled"
     /\ (~isOnline /\ ~isOnline') =>
          /\ pendingCharIds' \subseteq pendingCharIds
          /\ pendingMsgIds' \subseteq pendingMsgIds
          /\ pendingNeedFullReload' => pendingNeedFullReload
          /\ timeouts' <= timeouts
          /\ syncRefreshTimer' => syncRefreshTimer]_vars

\* The sessions were cancelled by the toggle, and the change events they
\* had still to deliver were handled offline: nothing is dirty, nothing is
\* scheduled.
C11_Witness ==
  /\ ~isOnline
  /\ syncChars = 0 /\ syncMsgs = 0
  /\ \A c \in Collections :
       /\ sessions[c] # <<>>
       /\ \A i \in DOMAIN sessions[c] : sessions[c][i].state = "cancelled"
  /\ storageCharacters[CharId(1)]._rev > 1
  /\ storageMessages[MsgId(1)]._rev > 1
  /\ changes = {}
  /\ pendingCharIds = {} /\ pendingMsgIds = {} /\ ~pendingNeedFullReload
  /\ ~syncRefreshTimer /\ timeouts = 0

\* C12: a replication session is open only while isOnline is true,
\* whatever the interleaving of toggleOnline with initDatabase.
C12_LiveOnlyOnline ==
  \A c \in Collections : \A i \in DOMAIN sessions[c] :
    sessions[c][i].state = "open" => isOnline

\* ------------------------------------- the classification of the changes
InitChange ==
  Mounted({CharacterDoc(1, "Luke", 19, <<65>>, TRUE, 0),
           CommentDoc(1, MsgId(1), <<97>>, 1)},
          {MessageDoc(1, CharId(1), <<65>>, 1)})

NextChange ==
  \/ \E name \in Collections, docs \in ChangeBatches : emit(name, docs)
  \/ \E ev \in changes : handleSyncChange(ev)
  \/ toggleOnline

SpecChange == InitChange /\ [][NextChange]_vars

\* C13: a notification handled while online marks dirty the id of every
\* character document it lists (collection of the characters), the
\* characterId of every message that has one (collection of the messages)
\* and the messageId of every comment that has one; it sets the full-reload
\* flag when it lists no document or a document of any other shape, and in
\* no other case; it marks nothing else, and it leaves a refresh scheduled.
C13_Classification ==
  [][\A ev \in changes :
       (isOnline /\ changes' = changes \ {ev}) =>
         LET D == {ev.docs[i] : i \in DOMAIN ev.docs}
             chars == {d \in D : ev.source = "chars" /\ d.type = "character"}
             msgs == {d \in D : /\ ev.source = "msgs" /\ d.type = "message"
                                /\ d.characterId # NoId}
             cmts == {d \in D : /\ ev.source = "chars" /\ d.type = "comment"
                                /\ d.messageId # NoId}
         IN /\ pendingCharIds' =
                 pendingCharIds \cup {d._id : d \in chars}
                                \cup {d.characterId : d \in msgs}
            /\ pendingMsgIds' = pendingMsgIds \cup {d.messageId : d \in cmts}
            /\ pendingNeedFullReload' =
                 \/ pendingNeedFullReload
                 \/ D = {}
                 \/ D \ (chars \cup msgs \cup cmts) # {}
            /\ syncRefreshTimer' /\ timeouts' = 1]_vars

\* Notifications of both collections have been handled: a character and a
\* message are dirty, the full reload is asked for, a refresh is scheduled.
C13_Witness ==
  /\ changes = {}
  /\ pendingCharIds = {CharId(1), CharId(2)}
  /\ pendingMsgIds = {MsgId(1)}
  /\ pendingNeedFullReload
  /\ syncRefreshTimer /\ timeouts = 1

\* ------------------------------------------------ the debounced refresh
InitDebounce ==
  Mounted({CharacterDoc(1, "Luke", 19, <<65>>, TRUE, 0),
           CommentDoc(1, MsgId(1), <<97>>, 1)},
          {MessageDoc(1, CharId(1), <<65>>, 1)})

NextDebounce ==
  \/ pull("chars", CharId(1), RemoteLike(storageCharacters[CharId(1)]))
  \/ pull("chars", CmtId(1), RemoteEdit(storageCharacters[CmtId(1)], <<65>>))
  \/ pull("msgs", MsgId(1), RemoteDelete(storageMessages[MsgId(1)]))
  \/ pullNew("chars", CharacterDoc(2, "Rey", 20, <<97>>, FALSE, 0))
  \/ \E ev \in changes : handleSyncChange(ev)
  \/ \E p \in Tasks : TimerFire(p)
  \/ \E p \in Tasks : RefreshGet(p)
  \/ \E p \in Tasks : RefreshFind(p)
  \/ \E p \in Tasks : LoadMedia(p)
  \/ \E p \in Tasks : toggleSortByLikes(p)
  \/ \E p \in Tasks : TopFind(p)
  \/ \E p \in Tasks : TopChars(p)
  \/ \E p \in Tasks : TopComment(p)
  \/ \E p \in Tasks : FetchFind(p)
  \/ \E p \in Tasks : LoadFind(p)
  \/ \E p \in Tasks : LoadComment(p)

SpecDebounce == InitDebounce /\ [][NextDebounce]_vars

\* The elements of a sequence.
Range(f) == {f[i] : i \in DOMAIN f}

\* C14: however many notifications arrive while a timeout is armed, one
\* timeout is armed (each notification clears the armed one and arms a new
\* one, and starts no refresh itself), so that one refresh pass follows the
\* last notification of the burst.  Until it fires nothing that was
\* accumulated is dropped, and the pass that starts when it fires takes
\* all of it: it is a fetch of the whole view, or it goes through every
\* dirty character id and every dirty message id, and nothing stays pending.
C14_Debounce ==
  [][/\ timeouts' <= 1
     /\ syncRefreshTimer' <=> timeouts' = 1
     /\ timeouts' >= timeouts =>
          /\ pendingCharIds \subseteq pendingCharIds'
          /\ pendingMsgIds \subseteq pendingMsgIds'
          /\ pendingNeedFullReload => pendingNeedFullReload'
          /\ \A p \in Tasks : task[p].op = "idle" => task'[p].op # "refresh"
     /\ timeouts' < timeouts =>
          /\ pendingCharIds' = {} /\ pendingMsgIds' = {}
          /\ ~pendingNeedFullReload'
          /\ \E p \in Tasks :
               /\ task[p].op = "idle" /\ task'[p].op = "refresh"
               /\ \A q \in Tasks \ {p} : task'[q] = task[q]
               /\ \/ task'[p].fetch \in {"top", "full"}
                  \/ /\ pendingCharIds = Range(task'[p].charIds)
                     /\ \A mid \in pendingMsgIds :
                          \/ mid \in Range(task'[p].msgIds)
                          \/ WhereMessage(characters, mid) = 0
                          \/ /\ task'[p].pc = "lmFind"
                             /\ task'[p].lmIndex =
                                  WhereMessage(characters, mid)]_vars

\* Two notifications arrived one after the other, each for another
\* character; the one timeout has fired and the pass goes through both.
C14_Witness ==
  /\ changes = {} /\ timeouts = 0
  /\ task[1].op = "refresh" /\ task[1].pc = "rcGet"
  /\ Range(task[1].charIds) = {CharId(1), CharId(2)}
  /\ task[2].op = "idle"

Shown(view) ==
  [i \in DOMAIN view |-> [docId |-> view[i].docId, data |-> view[i].data]]

\* Online, no filter or sort active, every notification delivered, no
\* refresh scheduled, every handler and refresh pass returned.
Settled ==
  /\ isOnline
  /\ ~sortByLikes /\ orderByLikesForChar = {}
  /\ changes = {}
  /\ timeouts = 0 /\ ~syncRefreshTimer
  /\ pendingCharIds = {} /\ pendingMsgIds = {} /\ ~pendingNeedFullReload
  /\ \A p \in AllTasks : task[p].pc \in {"idle", "done"}

\* C16: once the client is online with no filter active, the notifications
\* have stopped and every refresh pass and handler has returned, the view
\* shows exactly the characters and messages stored locally, with their
\* stored field values.
C16_ViewConsistent == Settled => Shown(characters) = Shown(FullView)

\* --------------------------------------------- the indexes and the finds
NextIndex ==
  \/ InitIndexesCharacters
  \/ InitIndexesMessages
  \/ InitStartSync
  \/ \E p \in Tasks : toggleSortByLikes(p)
  \/ \E p \in Tasks : searchByAffiliation(p, <<65>>)
  \/ \E p \in Tasks : AffiliationFind(p)
  \/ \E p \in AllTasks : FetchFind(p)
  \/ \E p \in AllTasks : LoadFind(p)
  \/ \E p \in AllTasks : LoadComment(p)
  \/ \E p \in AllTasks : LoadMedia(p)
  \/ \E p \in Tasks : TopFind(p)
  \/ \E p \in Tasks : TopChars(p)
  \/ \E p \in Tasks : TopComment(p)

SpecIndex == InitSync /\ [][NextIndex]_vars

\* The awaits at which a find on each store is in flight.
FindsOnCharacters ==
  {"fdFind", "saFind", "lmComment", "ftChars", "ftComment", "rcFind"}

FindsOnMessages == {"lmFind", "ftFind", "smFind"}

\* C17: a find is in flight on a store only when the creation of the
\* indexes of that store has run to completion and succeeded, whatever the
\* user does while initDatabase runs and whatever createIndex answers.
C17_IndexesBeforeFinds ==
  \A p \in AllTasks :
    /\ task[p].pc \in FindsOnCharacters => indexes.chars = "created"
    /\ task[p].pc \in FindsOnMessages => indexes.msgs = "created"

\* ------------------------------------------------------ the failing finds
InitFails ==
  Mounted({CharacterDoc(1, "Luke", 19, <<65>>, TRUE, 0),
           CommentDoc(1, MsgId(1), <<97>>, 1)},
          {MessageDoc(1, CharId(1), <<65>>, 1),
           MessageDoc(2, CharId(1), <<97>>, 2)})

NextFails ==
  \/ \E p \in Tasks : toggleCharSort(p, 1)
  \/ \E p \in Tasks : likeMessage(p, 1, 1)
  \/ \E p \in Tasks : SaveGet(p)
  \/ \E p \in Tasks : SavePut(p)
  \/ \E p \in Tasks : LoadFind(p)
  \/ \E p \in Tasks : LoadComment(p)
  \/ \E p \in Tasks : LoadFails(p)
  \/ pull("chars", CharId(1), RemoteLike(storageCharacters[CharId(1)]))
  \/ pull("chars", CmtId(1), RemoteEdit(storageCharacters[CmtId(1)], <<65>>))
  \/ \E ev \in changes : handleSyncChange(ev)
  \/ \E p \in Tasks : TimerFire(p)
  \/ \E p \in Tasks : RefreshGet(p)
  \/ \E p \in Tasks : LoadMedia(p)

SpecFails == InitFails /\ [][NextFails]_vars

\* C18: no handler and no refresh callback ends with its promise rejected:
\* a failing find is caught on its way and the operation that issued it
\* returns.
C18_FindFailuresCaught ==
  \A p \in AllTasks : task[p].result # "rejected"

\* ---------------------------------------------------- the prefix search
\* The code units of the texts: 'A', 'a', 'b' and the highest one, U+FFFF.
Alphabet == {65, 97, 98, 65535}

MaxText == 3

\* The strings over the alphabet of at most MaxText code units.
Texts == UNION {[1..n -> Alphabet] : n \in 0..MaxText}

\* What is typed into the search input: "", "a", "A", " a ", "ab", "b".
Queries == {<<>>, <<97>>, <<65>>, <<32, 97, 32>>, <<97, 98>>, <<98>>}

InitSearch ==
  \E t1 \in Texts, t2 \in {<<97>>, <<98, 97>>} :
    Mounted({CharacterDoc(1, "Luke", 19, <<65>>, TRUE, 0),
             CommentDoc(1, MsgId(1), <<97>>, 1)},
            {MessageDoc(1, CharId(1), t1, 1), MessageDoc(2, CharId(1), t2, 2)})

NextSearch ==
  \/ \E p \in Tasks, text \in Queries : searchMessages(p, text)
  \/ \E p \in Tasks : SearchFind(p)
  \/ \E p \in Tasks : TopChars(p)
  \/ \E p \in Tasks : TopComment(p)
  \/ \E p \in Tasks : FetchFind(p)
  \/ \E p \in Tasks : LoadFind(p)
  \/ \E p \in Tasks : LoadComment(p)
  \/ \E p \in Tasks : LoadMedia(p)

SpecSearch == InitSearch /\ [][NextSearch]_vars

\* s begins with q.
BeginsWith(s, q) == Len(q) <= Len(s) /\ SubSeq(s, 1, Len(q)) = q

\* C19: the find of searchMessages for a non-blank query q answers with
\* exactly the stored messages whose textLower begins with q.
C19_PrefixSearch ==
  [][\A p \in Tasks :
       (task[p].pc = "smFind" /\ task'[p].pc # "smFind") =>
         LET want == {m \in Find(storageMessages, [type |-> {"message"}]) :
                        BeginsWith(m.textLower, task[p].q)}
         IN IF want = {}
            THEN characters' = <<>> /\ task'[p].pc = "done"
            ELSE Range(task'[p].lmMsgs) = want]_vars

\* ----------------------------------------------- the pages of the top list
\* The global sort is on and some page of the top messages is shown; the
\* store holds NMessages messages of two characters, no two of them with
\* the same number of likes.
InitPages ==
  /\ \E k \in {1, 3, 7}, c \in 0..2 :
       storageMessages =
         [i \in {"message"} \X (1..NMessages) |->
            [MessageDoc(i[2], CharId(1 + (i[2] % 2)), <<97>>, i[2])
               EXCEPT !._rev = 1, !.likes = (i[2] * k + c) % NMessages]]
  /\ storageCharacters =
       StoreOf(CharDbIds, {CharacterDoc(1, "Luke", 19, <<65>>, TRUE, 0),
                           CharacterDoc(2, "Rey", 20, <<97>>, FALSE, 0),
                           CommentDoc(1, MsgId(1), <<97>>, 1)})
  /\ initial = [chars |-> storageCharacters, msgs |-> storageMessages]
  /\ sortByLikes = TRUE
  /\ topMessagesPage \in 0..2
  /\ \E ms \in {TopMessages(storageMessages,
                             topMessagesPage * TOP_PAGE_SIZE)} :
       \E cs \in {TopCharacters(ms)} : characters = TopView(ms, cs)
  /\ isOnline = TRUE
  /\ syncChars = 1 /\ syncMsgs = 1
  /\ sessions = [chars |-> <<[state |-> "open", by |-> "initDatabase"]>>,
                 msgs |-> <<[state |-> "open", by |-> "initDatabase"]>>]
  /\ initPc = "done"
  /\ editingIndex = 0 /\ editingCharacter = <<>>
  /\ editingMessageIndex = <<>> /\ editingMessageText = <<>>
  /\ editingCommentIndex = <<>> /\ editingCommentText = <<>>
  /\ now = MaxTime
  /\ task = [p \in AllTasks |->
               IF p = 0
               THEN Returned([IdleTask EXCEPT !.op = "fetchData"], "pending")
               ELSE IdleTask]
  /\ pendingCharIds = {} /\ pendingMsgIds = {}
  /\ pendingNeedFullReload = FALSE
  /\ syncRefreshTimer = FALSE /\ timeouts = 0
  /\ changes = {}
  /\ orderByLikesForChar = {}
  /\ indexes = [chars |-> "created", msgs |-> "created"]
  /\ visibleComments = {}
  /\ MediaLoaded

\* The pages are turned one after the other: an arrow is clicked once the
\* page asked for before is shown.
Serial == \A q \in Tasks : task[q].pc \in {"idle", "done"}

NextPages ==
  \/ \E p \in Tasks : Serial /\ nextTopMessagesPage(p)
  \/ \E p \in Tasks : Serial /\ topMessagesPage > 0 /\ prevTopMessagesPage(p)
  \/ \E p \in Tasks : TopFind(p)
  \/ \E p \in Tasks : TopChars(p)
  \/ \E p \in Tasks : TopComment(p)
  \/ \E p \in Tasks : LoadMedia(p)

SpecPages == InitPages /\ [][NextPages]_vars

\* The rank of message m among the stored messages, by descending likes.
Rank(m) ==
  1 + Cardinality({x \in Find(storageMessages, [type |-> {"message"}]) :
                     x.likes > m.likes})

InitComments ==
  \E cs \in SUBSET {CommentDoc(k, MsgId(j), <<97>>, at) :
                      k \in 1..2, j \in 1..2, at \in 1..2} :
    /\ \A c \in cs, d \in cs : c._id = d._id => c = d
    /\ Mounted({CharacterDoc(1, "Luke", 19, <<65>>, TRUE, 0)} \cup cs,
               {MessageDoc(1, CharId(1), <<65>>, 1),
                MessageDoc(2, CharId(1), <<97>>, 2)})

NextComments ==
  \/ \E p \in Tasks, j \in 1..2 : likeMessage(p, 1, j)
  \/ \E p \in Tasks, j \in 1..2 : addComment(p, 1, j, <<65>>)
  \/ \E p \in Tasks, j \in 1..2 : deleteComment(p, 1, j, 1, TRUE)
  \/ \E p \in Tasks : toggleSortByLikes(p)
  \/ \E p \in Tasks : SaveGet(p)
  \/ \E p \in Tasks : SavePut(p)
  \/ \E p \in Tasks : CreatePut(p)
  \/ \E p \in Tasks : RemoveGet(p)
  \/ \E p \in Tasks : RemoveDoc(p)
  \/ \E p \in Tasks : FetchFind(p)
  \/ \E p \in Tasks : TopFind(p)
  \/ \E p \in Tasks : TopChars(p)
  \/ \E p \in Tasks : TopComment(p)
  \/ \E p \in Tasks : LoadFind(p)
  \/ \E p \in Tasks : LoadComment(p)
  \/ \E p \in Tasks : LoadMedia(p)

SpecComments == InitComments /\ [][NextComments]_vars

\* The comments of message `mid` in store `db`.
CommentsOf(db, mid) == Find(db, [type |-> {"comment"}, messageId |-> {mid}])

\* `cs` is what the latest-comment query may attach to message `mid`:
\* nothing when it has no stored comment, else one of its stored comments
\* that none is newer than.
IsLatest(cs, mid) ==
  IF CommentsOf(storageCharacters, mid) = {} THEN cs = <<>>
  ELSE /\ Len(cs) = 1
       /\ \E c \in CommentsOf(storageCharacters, mid) :
            /\ cs[1] = CommentUI(c)
            /\ \A d \in CommentsOf(storageCharacters, mid) :
                 d.createdAt <= c.createdAt

toggleCommentVisibility(index, msgIndex) ==
  /\ index \in 1..Len(characters)
  /\ msgIndex \in 1..Len(characters[index].data.messages)
  /\ Len(characters[index].data.messages[msgIndex].comments) > 1
  /\ visibleComments' =
       IF <<index, msgIndex>> \in visibleComments
       THEN visibleComments \ {<<index, msgIndex>>}
       ELSE visibleComments \cup {<<index, msgIndex>>}
  /\ UNCHANGED <<storeVars, syncVars, refreshVars, queryVars, editVars,
                 characters, task, now, initial, mediaVars>>

\* What the card of message msgIndex of character index lists:
\* msg.comments when the flag of the pair is set, msg.comments.slice(-1)
\* otherwise.
ShownComments(index, msgIndex) ==
  LET cs == characters[index].data.messages[msgIndex].comments
  IN IF <<index, msgIndex>> \in visibleComments \/ cs = <<>> THEN cs
     ELSE <<cs[Len(cs)]>>

\* C22: once every handler has returned, the card of a message whose flag
\* is set lists all the stored comments of the message, and the card of a
\* message whose flag is not set lists only the latest one.
C22_ViewProjection ==
  (\A p \in AllTasks : task[p].pc \in {"idle", "done"}) =>
    \A i \in 1..Len(characters) :
      \A j \in 1..Len(characters[i].data.messages) :
        LET mid == characters[i].data.messages[j].id
            shown == ShownComments(i, j)
        IN IF <<i, j>> \in visibleComments
           THEN {shown[k] : k \in 1..Len(shown)} =
                  {CommentUI(c) : c \in CommentsOf(storageCharacters, mid)}
           ELSE IsLatest(shown, mid)

\* ------------------------------------------------ messages of no character
\* Character 1 is stored with a comment; character 2 is stored or not; each
\* of the two messages names character 1, character 2 or, in place of a
\* character, the comment.
InitOrphans ==
  \E second \in SUBSET {CharacterDoc(2, "Rey", 20, <<97>>, FALSE, 0)} :
    \E c1 \in {CharId(1), CharId(2), CmtId(1)} :
      \E c2 \in {CharId(1), CharId(2), CmtId(1)} :
        Mounted({CharacterDoc(1, "Luke", 19, <<65>>, TRUE, 0),
                 CommentDoc(1, MsgId(1), <<97>>, 1)} \cup second,
                {MessageDoc(1, c1, <<97>>, 1), MessageDoc(2, c2, <<97, 98>>, 2)})

\* The three fetches, one after the other: the page with a blank search
\* (the full reload), the text search, the top messages.
NextOrphans ==
  \/ \E p \in Tasks, text \in {<<>>, <<97>>, <<97, 98>>} :
       Serial /\ searchMessages(p, text)
  \/ \E p \in Tasks : Serial /\ toggleSortByLikes(p)
  \/ \E p \in Tasks : SearchFind(p)
  \/ \E p \in Tasks : TopFind(p)
  \/ \E p \in Tasks : TopChars(p)
  \/ \E p \in Tasks : TopComment(p)
  \/ \E p \in Tasks : FetchFind(p)
  \/ \E p \in Tasks : LoadFind(p)
  \/ \E p \in Tasks : LoadComment(p)
  \/ \E p \in Tasks : LoadMedia(p)

SpecOrphans == InitOrphans /\ [][NextOrphans]_vars

\* Message document m names no stored character.
Orphan(m) ==
  ~ /\ m.characterId \in DOMAIN storageCharacters
    /\ Live(storageCharacters[m.characterId])
    /\ storageCharacters[m.characterId].type = "character"

\* The messages the query of the fetch of handler record tk selects.
Selected(tk) ==
  IF tk.fetch = "top" THEN Range(TopMessages(storageMessages, tk.skip))
  ELSE IF tk.fetch = "full" THEN Find(storageMessages, [type |-> {"message"}])
  ELSE Range(SearchMessages(storageMessages, tk.q))

\* Message id `mid` is listed in `view` under the entry of character `cid`.
ShownUnder(view, mid, cid) ==
  \E i \in 1..Len(view) :
    /\ view[i].docId = cid
    /\ \E j \in 1..Len(view[i].data.messages) :
         view[i].data.messages[j].id = mid

\* C23: a full reload, a fetch of the top messages or a text search that
\* runs over a store holding messages of no stored character returns
\* without an error; the view it leaves lists none of those messages, and
\* lists every other message its query selected under the character the
\* message names.
C23_OrphanTolerance ==
  [][\A p \in Tasks :
       (task[p].pc # "done" /\ task'[p].pc = "done") =>
         /\ task'[p].result # "thrown"
         /\ \A m \in Find(storageMessages, [type |-> {"message"}]) :
              Orphan(m) =>
                \A i \in 1..Len(characters') :
                  \A j \in 1..Len(characters'[i].data.messages) :
                    characters'[i].data.messages[j].id # m._id
         /\ \A m \in Selected(task[p]) :
              ~Orphan(m) => ShownUnder(characters', m._id, m.characterId)]_vars

\* A fetch of the top messages has returned; one of the two messages names
\* no stored character and the other one is listed under its character.
C23_Witness ==
  /\ \E p \in Tasks : task[p].op = "toggleSortByLikes" /\ task[p].pc = "done"
  /\ sortByLikes
  /\ \E m \in Find(storageMessages, [type |-> {"message"}]) : Orphan(m)
  /\ \E m \in Find(storageMessages, [type |-> {"message"}]) :
       ShownUnder(characters, m._id, m.characterId)

\* ------------------------------------------------------ the attached media
\* Another client has removed the attachment of document `cur`.
RemoteUnattach(cur) ==
  [cur EXCEPT !.media = FALSE, !.mediaContentType = "none"]

\* Document d with a blob of type image/png attached, or as it is.
WithMedia(d, has) ==
  IF has THEN [d EXCEPT !.media = TRUE, !.mediaContentType = "image/png"]
  ELSE d

\* One character with one message; each has an attachment or not, and the
\* URLs of those that have one are held.
InitMedia ==
  \E onChar \in BOOLEAN, onMsg \in BOOLEAN :
    Mounted({WithMedia(CharacterDoc(1, "Luke", 19, <<65>>, TRUE, 0), onChar)},
            {WithMedia(MessageDoc(1, CharId(1), <<65>>, 1), onMsg)})

NextMedia ==
  \/ \E p \in Tasks : attachMediaToMessage(p, MsgId(1), "image/png")
  \/ \E p \in Tasks : removeMediaFromMessage(p, MsgId(1), TRUE)
  \/ \E p \in Tasks : attachMediaToCharacter(p, CharId(1), "")
  \/ \E p \in Tasks : removeMediaFromCharacter(p, CharId(1), TRUE)
  \/ \E p \in Tasks : likeMessage(p, 1, 1)
  \/ \E p \in Tasks : deleteMessage(p, 1, 1, TRUE)
  \/ \E p \in Tasks : deleteCharacter(p, 1, TRUE)
  \/ pull("msgs", MsgId(1), RemoteUnattach(storageMessages[MsgId(1)]))
  \/ \E p \in Tasks : MediaGet(p)
  \/ \E p \in Tasks : MediaAttachment(p)
  \/ \E p \in Tasks : MediaPut(p)
  \/ \E p \in Tasks : SaveGet(p)
  \/ \E p \in Tasks : SavePut(p)
  \/ \E p \in Tasks : CascadeFindMessages(p)
  \/ \E p \in Tasks : CascadeFindComments(p)
  \/ \E p \in Tasks : CascadeBulkMessages(p)
  \/ \E p \in Tasks : RemoveGet(p)
  \/ \E p \in Tasks : RemoveDoc(p)
  \/ \E p \in Tasks : LoadFind(p)
  \/ \E p \in Tasks : LoadComment(p)
  \/ \E p \in Tasks : LoadMedia(p)

SpecMedia == InitMedia /\ [][NextMedia]_vars

\* The attach and remove handlers alone, on the message and the character.
NextAttach ==
  \/ \E p \in Tasks : attachMediaToMessage(p, MsgId(1), "image/png")
  \/ \E p \in Tasks : removeMediaFromMessage(p, MsgId(1), TRUE)
  \/ \E p \in Tasks : attachMediaToCharacter(p, CharId(1), "")
  \/ \E p \in Tasks : removeMediaFromCharacter(p, CharId(1), TRUE)
  \/ \E p \in Tasks : MediaGet(p)
  \/ \E p \in Tasks : MediaAttachment(p)
  \/ \E p \in Tasks : MediaPut(p)
  \/ \E p \in Tasks : LoadMedia(p)

SpecAttach == InitMedia /\ [][NextAttach]_vars

\* The stored documents that can own an attachment.
Owners ==
  {d \in {storageCharacters[i] : i \in CharDbIds}
         \cup {storageMessages[i] : i \in MsgDbIds} :
     Live(d) /\ d.type \in {"character", "message"}}

\* C24: whenever every handler has returned and none of them has ended in
\* its catch, a stored character or message has the field mediaContentType
\* exactly when it has the attachment 'media'.
C24_MarkerAgreement ==
  (\A p \in Tasks : /\ task[p].pc \in {"idle", "done"}
                    /\ task[p].result # "thrown") =>
    \A d \in Owners : d.media <=> d.mediaContentType # "none"


\* C25: when loadMessageMediaUrl or loadCharacterMediaUrl completes for an
\* id whose getAttachment answers 404 (no document, or no attachment
\* 'media'), no media URL is held for that id, whether or not one was held
\* before.
C25_NoMediaOn404 ==
  [][\A p \in Tasks :
       (/\ task[p].pc \in MediaPcs
        /\ task'[p] # task[p]
        /\ ~HasBlob(Db(MediaOf(task[p])), Head(task[p].mediaIds))) =>
         IF MediaOf(task[p]) = "chars"
         THEN characterMediaUrl'[Head(task[p].mediaIds)] = NoUrl
         ELSE messageMediaUrl'[Head(task[p].mediaIds)] = NoUrl]_vars

\* At most one handle that has not been revoked names owner `id`.
OneHandle(id) == Cardinality({u \in objectUrls : u[1] = id}) <= 1

\* C26: at any time at most one media URL that has not been revoked exists
\* per owner, and once every handler has returned none exists for an owner
\* that has been deleted.
C26_OneHandlePerOwner ==
  /\ \A id \in CharDbIds \cup MsgDbIds : OneHandle(id)
  /\ (\A p \in Tasks : task[p].pc \in {"idle", "done"}) =>
       \A u \in objectUrls : Live(IF u[1] \in MsgDbIds
                                  THEN storageMessages[u[1]]
                                  ELSE storageCharacters[u[1]])

\* ------------------------------------------------------ the confirmations
\* One character with a message and its comment; the character and the
\* message have a media, whose URLs are held.
InitConfirm ==
  Mounted({WithMedia(CharacterDoc(1, "Luke", 19, <<65>>, TRUE, 0), TRUE),
           CommentDoc(1, MsgId(1), <<97>>, 1)},
          {WithMedia(MessageDoc(1, CharId(1), <<65>>, 1), TRUE)})

\* The five handlers that ask; the user accepts or declines.
NextConfirm ==
  \/ \E p \in Tasks, ok \in BOOLEAN : deleteCharacter(p, 1, ok)
  \/ \E p \in Tasks, ok \in BOOLEAN : deleteMessage(p, 1, 1, ok)
  \/ \E p \in Tasks, ok \in BOOLEAN : deleteComment(p, 1, 1, 1, ok)
  \/ \E p \in Tasks, ok \in BOOLEAN : removeMediaFromMessage(p, MsgId(1), ok)
  \/ \E p \in Tasks, ok \in BOOLEAN :
       removeMediaFromCharacter(p, CharId(1), ok)
  \/ \E p \in Tasks : CascadeFindMessages(p)
  \/ \E p \in Tasks : CascadeFindComments(p)
  \/ \E p \in Tasks : CascadeBulkComments(p)
  \/ \E p \in Tasks : CascadeBulkMessages(p)
  \/ \E p \in Tasks : RemoveGet(p)
  \/ \E p \in Tasks : RemoveDoc(p)
  \/ \E p \in Tasks : MediaGet(p)
  \/ \E p \in Tasks : MediaAttachment(p)
  \/ \E p \in Tasks : MediaPut(p)
  \/ \E p \in Tasks : LoadFind(p)
  \/ \E p \in Tasks : LoadComment(p)
  \/ \E p \in Tasks : LoadMedia(p)

SpecConfirm == InitConfirm /\ [][NextConfirm]_vars

Destructive ==
  {"deleteCharacter", "deleteMessage", "deleteComment",
   "removeMediaFromMessage", "removeMediaFromCharacter"}

\* C27: a destructive handler whose confirmation is declined has returned
\* in the step that asked, has issued no get, put, find, bulkDocs or remove,
\* and that step leaves the two stores, the view and the two tables of media
\* URLs as they were.
C27_ConfirmFirst ==
  /\ [](\A p \in Tasks :
          (task[p].op \in Destructive /\ ~task[p].confirm) =>
            /\ task[p].pc = "done" /\ task[p].result = "declined"
            /\ task[p].gets = 0 /\ task[p].puts = 0 /\ task[p].issued = <<>>)
  /\ [][\A p \in Tasks :
          (task[p].op = "idle" /\ task'[p].op \in Destructive
           /\ ~task'[p].confirm) =>
            UNCHANGED <<storeVars, characters, mediaVars>>]_vars

\* Each of the five handlers has been declined in some behaviour; here the
\* deletion of the character and the removal of the media of the message
\* have both been declined and everything is still stored and shown.
C27_Witness ==
  /\ \E p \in Tasks : task[p].op = "deleteCharacter" /\ ~task[p].confirm
  /\ \E p \in Tasks : task[p].op = "removeMediaFromMessage" /\ ~task[p].confirm
  /\ Live(storageCharacters[CharId(1)])
  /\ HasBlob(storageMessages, MsgId(1))
  /\ Len(characters) = 1
  /\ messageMediaUrl[MsgId(1)] # NoUrl

\* ------------------------------------------------- mutations that fail
\* The handlers the view follows, with stores that can reject a get, a put
\* or a remove.
NextFailing ==
  \/ \E p \in Tasks : deleteCharacter(p, 1, TRUE)
  \/ \E p \in Tasks : likeCharacter(p, 1)
  \/ \E p \in Tasks : likeMessage(p, 1, 1)
  \/ startEdit(1)
  \/ \E p \in Tasks : saveEdit(p, 1)
  \/ \E p \in Tasks : SaveGet(p)
  \/ \E p \in Tasks : SavePut(p)
  \/ \E p \in Tasks : SaveFails(p)
  \/ \E p \in Tasks : CascadeFindMessages(p)
  \/ \E p \in Tasks : CascadeFindComments(p)
  \/ \E p \in Tasks : CascadeBulkComments(p)
  \/ \E p \in Tasks : CascadeBulkMessages(p)
  \/ \E p \in Tasks : CascadeFails(p)
  \/ \E p \in Tasks : RemoveGet(p)
  \/ \E p \in Tasks : RemoveDoc(p)
  \/ \E p \in Tasks : RemoveFails(p)
  \/ \E p \in Tasks : LoadFind(p)
  \/ \E p \in Tasks : LoadComment(p)
  \/ \E p \in Tasks : LoadMedia(p)

SpecFailing == InitRetry /\ [][NextFailing]_vars

\* C28: when deleteCharacter, saveEdit, likeCharacter or likeMessage
\* returns after its removeWithRetry has answered false or its
\* saveWithConflictRetry null, the view is what it was before the handler
\* returned: the character is still shown, the displayed values are not
\* altered.
C28_FailureKeepsView ==
  [][\A p \in Tasks :
       (/\ task[p].pc # "done" /\ task'[p].pc = "done"
        /\ task'[p].op \in {"deleteCharacter", "saveEdit", "likeCharacter",
                            "likeMessage"}
        /\ task'[p].result \in {"null", "false"}) =>
         characters' = characters]_vars


\* The stored comments of the messages `msgs`.
CommentsOfAll(db, msgs) ==
  Find(db, [type |-> {"comment"}, messageId |-> {m._id : m \in msgs}])

\* Call a comes before call b wherever both are in `log`.
Precedes(log, a, b) ==
  \A i \in 1..Len(log) : \A j \in 1..Len(log) :
    (log[i] = a /\ log[j] = b) => i < j

\* C30: in deleteCharacter the bulkDocs of the comments is answered before
\* the bulkDocs of the messages, and both before the character document is
\* removed; a character whose find answered with messages is not removed
\* unless the bulkDocs of the messages has been answered, and the comments
\* found are tombstoned before the messages; when a find or a bulkDocs of
\* the cascade raises an error, removeWithRetry is never called and the
\* step leaves the character document and the view as they were.
C30_CascadeOrder ==
  /\ [](\A p \in Tasks : task[p].op = "deleteCharacter" =>
          LET log == task[p].issued
              has(c) == \E i \in 1..Len(log) : log[i] = c
          IN /\ Precedes(log, "bulkDocs comments", "bulkDocs messages")
             /\ Precedes(log, "bulkDocs comments", "remove")
             /\ Precedes(log, "bulkDocs messages", "remove")
             /\ (has("remove") /\ has("find comments")) =>
                  has("bulkDocs messages")
             /\ task[p].result = "thrown" =>
                  /\ ~has("remove")
                  /\ task[p].gets = 0 /\ task[p].puts = 0)
  /\ [][\A p \in Tasks : task[p].op = "deleteCharacter" =>
          /\ (task[p].pc = "findCmts" /\ task'[p].pc \in {"bulkMsgs", "rmGet"})
               => CommentsOfAll(storageCharacters, task[p].msgs) = {}
          /\ (task[p].pc # "done" /\ task'[p].result = "thrown") =>
               /\ characters' = characters
               /\ storageCharacters' = storageCharacters]_vars

\* One deleteCharacter met an error at the bulkDocs of the messages, after
\* the comments were tombstoned, and left the character stored; a second one
\* went through its cascade and removed it.
C30_Witness ==
  /\ \E p \in Tasks :
       /\ task[p].op = "deleteCharacter" /\ task[p].result = "thrown"
       /\ task[p].issued = <<"find messages", "find comments",
                             "bulkDocs comments">>
  /\ \E q \in Tasks :
       /\ task[q].op = "deleteCharacter" /\ task[q].result = "true"
       /\ task[q].issued = <<"find messages", "find comments",
                             "bulkDocs messages", "remove">>
  /\ ~Live(storageCharacters[CharId(1)])


\* The tombstones the bulkDocs that handler record tk waits for was given.
Batch(tk) == IF tk.pc = "bulkCmts" THEN tk.cmts ELSE tk.msgs

\* C29: a write of an existing document that meets a 409 is retried: an
\* attach or remove handler gives its stamp write up on a conflict only
\* after maxRetries attempts, and a cascade goes on from a bulkDocs to its
\* next call only when every tombstone of the batch is written.
C29_ConflictsRetried ==
  [][\A p \in Tasks :
       /\ (/\ task[p].pc = "mPut"
           /\ task'[p].pc = "done" /\ task'[p].lastError = 409) =>
            task'[p].attempt >= maxRetries
       /\ (/\ task[p].pc \in {"bulkCmts", "bulkMsgs"}
           /\ task'[p].pc \notin {task[p].pc, "done"}) =>
            \A d \in Batch(task[p]) :
              ~Live(IF task[p].pc = "bulkCmts"
                    THEN storageCharacters'[d._id]
                    ELSE storageMessages'[d._id])]_vars


\* ------------------------- the retry loops under every kind of answer
\* The first invocation is a like or the save of the form, the second the
\* deletion of the comment.
NextLoops ==
  \/ likeMessage(1, 1, 1)
  \/ deleteComment(2, 1, 1, 1, TRUE)
  \/ startEdit(1)
  \/ cancelEdit
  \/ saveEdit(1, 1)
  \/ \E p \in Tasks : SaveGet(p)
  \/ \E p \in Tasks : SavePut(p)
  \/ \E p \in Tasks : SaveFails(p)
  \/ \E p \in Tasks : RemoveGet(p)
  \/ \E p \in Tasks : RemoveDoc(p)
  \/ \E p \in Tasks : RemoveFails(p)
  \/ \E p \in Tasks : LoadFind(p)
  \/ \E p \in Tasks : LoadComment(p)
  \/ \E p \in Tasks : LoadMedia(p)
  \/ pull("msgs", MsgId(1), RemoteLike(storageMessages[MsgId(1)]))
  \/ pull("chars", CmtId(1), RemoteEdit(storageCharacters[CmtId(1)], <<97>>))

\* Every storage call of a loop is answered, with a result or with an error.
LoopAnswered(p) ==
  SaveGet(p) \/ SavePut(p) \/ SaveFails(p)
    \/ RemoveGet(p) \/ RemoveDoc(p) \/ RemoveFails(p)

SpecLoops ==
  InitRetry /\ [][NextLoops]_vars /\ \A p \in Tasks : WF_vars(LoopAnswered(p))

\* The step of task p that leaves its retry loop.
LeavesLoop(p) ==
  task[p].pc \in LoopPcs /\ task'[p].pc \notin LoopPcs /\ task'[p] # task[p]

\* The step has written a new revision of the document the loop works on.
WroteDoc(p) ==
  LET id == task[p].id
  IN /\ Db(task[p].db)' # Db(task[p].db)
     /\ \A j \in DOMAIN Db(task[p].db) \ {id} :
          Db(task[p].db)'[j] = Db(task[p].db)[j]
     /\ Db(task[p].db)'[id]._rev = Db(task[p].db)[id]._rev + 1

\* C31: saveWithConflictRetry and removeWithRetry end whatever get, merge
\* and put (remove) answer: a call inside a loop always leaves it, after at
\* most 3 gets and 3 puts (removes), with a document (true) exactly when its
\* last put (remove) has written the document and with null (false)
\* otherwise, the stores being untouched by that step.
C31_LoopsEnd ==
  /\ [](\A p \in Tasks :
          /\ task[p].gets <= maxRetries /\ task[p].puts <= maxRetries
          /\ task[p].puts <= task[p].gets
          /\ task[p].result \notin {"thrown", "rejected"})
  /\ [][\A p \in Tasks :
          LeavesLoop(p) =>
            /\ task'[p].gets >= 1
            /\ task'[p].result
                 \in (IF task[p].op \in SaveOps THEN {"doc", "null"}
                                                ELSE {"true", "false"})
            /\ task'[p].result \in {"doc", "true"} <=> WroteDoc(p)
            /\ task'[p].result \in {"null", "false"}
                 => UNCHANGED storeVars]_vars
  /\ \A p \in Tasks : (task[p].pc \in LoopPcs) ~> (task[p].pc \notin LoopPcs)

\* A save that a throwing merge has ended with null, next to a removal that
\* went through on its second attempt, after a conflict.
C31_Witness ==
  \E p, q \in Tasks :
    /\ task[p].op = "saveEdit" /\ task[p].result = "null"
    /\ task[p].lastError = 500 /\ task[p].gets = 1 /\ task[p].puts = 0
    /\ task[q].op = "deleteComment" /\ task[q].result = "true"
    /\ task[q].lastError = 409 /\ task[q].gets = 2 /\ task[q].puts = 2

\* --------------------------------- likes of one message among other writers
\* The view is loaded and three handler invocations are still to come.
InitCrowd ==
  /\ MountedState({CharacterDoc(1, "Luke", 19, <<65>>, TRUE, 0),
                   CommentDoc(1, MsgId(1), <<65>>, 1)},
                  {MessageDoc(1, CharId(1), <<65>>, 1)})
  /\ task = [p \in AllTasks |-> IdleTask]

NextCrowd ==
  \/ \E p \in AllTasks : likeMessage(p, 1, 1)
  \/ startEditMessage(1, 1)
  \/ saveEditMessage(0)
  \/ \E p \in AllTasks : SaveGet(p)
  \/ \E p \in AllTasks : SavePut(p)
  \/ \E p \in AllTasks : SaveFails(p)
  \/ \E p \in AllTasks : LoadFind(p)
  \/ \E p \in AllTasks : LoadComment(p)
  \/ \E p \in AllTasks : LoadMedia(p)
  \/ pull("msgs", MsgId(1), RemoteEdit(storageMessages[MsgId(1)], <<98>>))

SpecCrowd == InitCrowd /\ [][NextCrowd]_vars

\* The like calls that have returned a document.
LikesReturned ==
  {p \in AllTasks : task[p].op = "likeMessage" /\ task[p].result = "doc"}

\* C32: with likes of one message interleaved with each other, with edits of
\* its text by this client and by a remote one and with storage failures, the
\* stored likes are the initial likes plus the number of like calls that
\* have returned a document, in every state and so once all have settled.
C32_NoLostLike ==
  storageMessages[MsgId(1)].likes
    = initial.msgs[MsgId(1)].likes + Cardinality(LikesReturned)

\* All three calls have settled: two likes have landed, one of them after a
\* conflict, the third has returned null, and a remote edit is stored too.
C32_Witness ==
  /\ \A p \in AllTasks : task[p].pc = "done"
  /\ Cardinality(LikesReturned) = 2
  /\ \E p \in LikesReturned : task[p].attempt > 0
  /\ \E p \in AllTasks : task[p].op = "likeMessage" /\ task[p].result = "null"
  /\ storageMessages[MsgId(1)].text = <<98>>
  /\ storageMessages[MsgId(1)]._rev = initial.msgs[MsgId(1)]._rev + 3

\* ------------------------------------- three likes racing for one message
NextRace ==
  \/ \E p \in AllTasks : likeMessage(p, 1, 1)
  \/ \E p \in AllTasks : SaveGet(p)
  \/ \E p \in AllTasks : SavePut(p)
  \/ \E p \in AllTasks : LoadFind(p)
  \/ \E p \in AllTasks : LoadComment(p)
  \/ \E p \in AllTasks : LoadMedia(p)
  \/ pull("msgs", MsgId(1), RemoteLike(storageMessages[MsgId(1)]))

SpecRace == InitCrowd /\ [][NextRace]_vars

\* The like calls made so far.
LikeCalls == {p \in AllTasks : task[p].op = "likeMessage"}

\* Every stored revision of the message is the put of a like of this client.
NoOtherWriter ==
  storageMessages[MsgId(1)]._rev
    = initial.msgs[MsgId(1)]._rev + Cardinality(LikesReturned)

\* C33: up to three likeMessage calls racing for one message with no other
\* writer all return a document; a call returns null only once it has been
\* answered 409 by three puts.
C33_ThreeLikesSucceed ==
  /\ (NoOtherWriter /\ Cardinality(LikeCalls) <= 3)
       => \A p \in LikeCalls :
            /\ task[p].result # "null"
            /\ task[p].pc = "done" => task[p].result = "doc"
  /\ \A p \in AllTasks :
       task[p].result = "null"
         => task[p].attempt = 3 /\ task[p].puts = 3 /\ task[p].lastError = 409

\* Three likes have raced with no other writer: all have returned a document,
\* one at its first put, one at its second and one at its third.
C33_Witness ==
  /\ NoOtherWriter
  /\ \A p \in AllTasks : task[p].pc = "done" /\ task[p].result = "doc"
  /\ {task[p].puts : p \in AllTasks} = {1, 2, 3}
  /\ storageMessages[MsgId(1)].likes = initial.msgs[MsgId(1)].likes + 3

\* ------------------------ writes by index against a list that is replaced
InitShift ==
  Mounted({CharacterDoc(1, "Luke", 19, <<65>>, TRUE, 0),
           CharacterDoc(2, "Rey", 20, <<97>>, FALSE, 0)}, {})

NextShift ==
  \/ \E p \in Tasks : likeCharacter(p, 2)
  \/ \E p \in Tasks : SaveGet(p)
  \/ \E p \in Tasks : SavePut(p)
  \/ \E p \in Tasks : LoadFind(p)
  \/ \E p \in Tasks : LoadMedia(p)
  \/ pull("chars", CharId(1), RemoteDelete(storageCharacters[CharId(1)]))
  \/ \E ev \in changes : handleSyncChange(ev)
  \/ \E p \in Tasks : TimerFire(p)
  \/ \E p \in Tasks : RefreshGet(p)
  \/ \E p \in Tasks : FetchFind(p)

SpecShift == InitShift /\ [][NextShift]_vars

\* C34: no two entries of the view have the same character docId.
C34_UniqueDocIds ==
  \A i, j \in DOMAIN characters :
    (i # j /\ characters[i] # Hole /\ characters[j] # Hole)
      => characters[i].docId # characters[j].docId

\* ------------------- a fetch suspended while another one replaces the list
InitReplace ==
  Mounted({CharacterDoc(1, "Luke", 19, <<65>>, TRUE, 0),
           CharacterDoc(2, "Rey", 20, <<98>>, FALSE, 0)},
          {MessageDoc(1, CharId(1), <<65>>, 1),
           MessageDoc(2, CharId(2), <<97>>, 2)})

NextReplace ==
  \/ \E p \in Tasks : toggleSortByLikes(p)
  \/ \E p \in Tasks : searchByAffiliation(p, <<98>>)
  \/ \E p \in Tasks : AffiliationFind(p)
  \/ \E p \in Tasks : TopFind(p)
  \/ \E p \in Tasks : TopChars(p)
  \/ \E p \in Tasks : TopComment(p)
  \/ \E p \in Tasks : FetchFind(p)
  \/ \E p \in Tasks : LoadFind(p)
  \/ \E p \in Tasks : LoadMedia(p)

SpecReplace == InitReplace /\ [][NextReplace]_vars

\* C35: every message the view holds under a character entry is a message
\* of that character.
C35_MessagesUnderOwner ==
  \A i \in DOMAIN characters :
    characters[i] # Hole =>
      \A j \in DOMAIN characters[i].data.messages :
        storageMessages[characters[i].data.messages[j].id].characterId
          = characters[i].docId

\* ------------------------- an edit form open while the view is refreshed
NextSelect ==
  \/ startEdit(1)
  \/ \E p \in Tasks : saveEdit(p, 1)
  \/ \E p \in Tasks : SaveGet(p)
  \/ \E p \in Tasks : SavePut(p)
  \/ \E p \in Tasks : LoadFind(p)
  \/ \E p \in Tasks : LoadMedia(p)
  \/ pull("chars", CharId(1), RemoteDelete(storageCharacters[CharId(1)]))
  \/ \E ev \in changes : handleSyncChange(ev)
  \/ \E p \in Tasks : TimerFire(p)
  \/ \E p \in Tasks : RefreshGet(p)
  \/ \E p \in Tasks : FetchFind(p)

SpecSelect == InitShift /\ [][NextSelect]_vars

\* C36: the document saveEdit reads and writes is the one the form was
\* opened on: the character whose name startEdit has copied into the form
\* (no name is typed or changed here, and the names differ).
C36_EditHitsSelection ==
  [][\A p \in Tasks :
       (task[p].op = "idle" /\ task'[p].op = "saveEdit")
         => storageCharacters[task'[p].id].name = editingCharacter[1].name]_vars

\* ------------------------------------ creates that read the same clock
NextCreate ==
  \/ \E p \in Tasks, c \in NewCharacters :
       c.affiliation = <<65>> /\ addCharacter(p, c)
  \/ \E p \in Tasks : addMessage(p, 1, <<32, 65>>)
  \/ \E p \in Tasks : addComment(p, 1, 1, <<97>>)
  \/ \E p \in Tasks : CreatePut(p)
  \/ \E p \in Tasks : LoadFind(p)
  \/ \E p \in Tasks : LoadComment(p)
  \/ \E p \in Tasks : LoadMedia(p)
  \/ pullNew("chars", CharacterDoc(now, "Rey", 20, <<97>>, FALSE, 0))
  \/ pull("chars", CharId(now), RemoteDelete(storageCharacters[CharId(now)]))

SpecCreate == InitRetry /\ [][NextCreate]_vars

\* C37: the put of addCharacter, addMessage or addComment changes no
\* document that was stored before it; when its id, made from the clock, is
\* the id of a stored document the put is answered 409, the handler ends in
\* its catch, and the stores and the view are what they were.
C37_CreateNeverOverwrites ==
  [][\A p \in Tasks :
       (task[p].pc = "create" /\ task'[p] # task[p])
         => /\ \A i \in DOMAIN Db(task[p].db) :
                 Live(Db(task[p].db)[i])
                   => Db(task[p].db)'[i] = Db(task[p].db)[i]
            /\ Live(Db(task[p].db)[task[p].id])
                 => /\ UNCHANGED <<storeVars, characters>>
                    /\ task'[p].pc = "done"
                    /\ task'[p].result = "thrown"
                    /\ task'[p].lastError = 409]_vars

\* Two addCharacter calls have read the same clock value: the first has
\* stored its character, the second was answered 409 and the view shows the
\* first one only.
C37_Witness ==
  /\ task[1].op = "addCharacter" /\ task[1].result = "doc"
  /\ task[2].op = "addCharacter" /\ task[2].result = "thrown"
  /\ task[2].lastError = 409 /\ task[2].id = task[1].id
  /\ storageCharacters[task[1].id]._rev = 1
  /\ Len(characters) = Len(FullView)

\* ------------------------------------- the page of the top messages
NextCursor ==
  \/ \E p \in AllTasks : toggleSortByLikes(p)
  \/ \E p \in AllTasks : nextTopMessagesPage(p)
  \/ \E p \in AllTasks : prevTopMessagesPage(p)
  \/ \E p \in AllTasks : searchMessages(p, <<32>>)
  \/ \E p \in AllTasks : searchByAffiliation(p, <<>>)
  \/ \E p \in AllTasks : TopFind(p)
  \/ \E p \in AllTasks : TopChars(p)
  \/ \E p \in AllTasks : TopComment(p)
  \/ \E p \in AllTasks : FetchFind(p)
  \/ \E p \in AllTasks : LoadFind(p)
  \/ \E p \in AllTasks : LoadComment(p)
  \/ \E p \in AllTasks : LoadMedia(p)

SpecCursor == InitCrowd /\ [][NextCursor]_vars

\* Handler p is invoked in this step, as operation op.
Invoked(p, op) == task[p].op = "idle" /\ task'[p].op = op

\* C38: topMessagesPage is never negative; toggleSortByLikes flips the sort
\* and a blank text or affiliation search turns it off, each leaving the
\* page at 0, and no step changes the sort without leaving the page at 0;
\* prevTopMessagesPage called on page 0 returns at once: no fetch is
\* started and nothing but the record of the call changes.
C38_PageCursor ==
  /\ [](topMessagesPage >= 0)
  /\ [][/\ sortByLikes' # sortByLikes => topMessagesPage' = 0
        /\ \A p \in AllTasks :
             /\ Invoked(p, "toggleSortByLikes")
                  => sortByLikes' = ~sortByLikes /\ topMessagesPage' = 0
             /\ (Invoked(p, "searchMessages") /\ task'[p].q = <<>>)
                  => ~sortByLikes' /\ topMessagesPage' = 0
             /\ (Invoked(p, "searchByAffiliation") /\ task'[p].q = <<>>)
                  => ~sortByLikes' /\ topMessagesPage' = 0
             /\ (Invoked(p, "prevTopMessagesPage") /\ topMessagesPage = 0)
                  => /\ task'[p].pc = "done" /\ task'[p].fetch = "none"
                     /\ UNCHANGED <<storeVars, characters, syncVars, editVars,
                                    uiVars, refreshVars, queryVars>>]_vars

\* The sort was turned on, the second page asked for, and a blank
\* affiliation search has turned the sort off and put the page back to 0.
C38_Witness ==
  /\ \E p \in AllTasks : task[p].op = "toggleSortByLikes"
  /\ \E p \in AllTasks : task[p].op = "nextTopMessagesPage"
  /\ \E p \in AllTasks : task[p].op = "searchByAffiliation" /\ task[p].pc = "done"
  /\ ~sortByLikes /\ topMessagesPage = 0

\* ------------------------------------ dirty marks and the passes they get
NextMarks ==
  \/ pull("chars", CharId(1), RemoteLike(storageCharacters[CharId(1)]))
  \/ pull("chars", CharId(2), RemoteLike(storageCharacters[CharId(2)]))
  \/ \E ev \in changes : handleSyncChange(ev)
  \/ \E p \in Tasks : TimerFire(p)
  \/ \E p \in Tasks : RefreshGet(p)
  \/ \E p \in Tasks : LoadMedia(p)
  \/ \E p \in Tasks : LoadFind(p)
  \/ \E p \in Tasks : LoadFails(p)

\* A storage call of a refresh pass is answered, with a result or an error.
PassAnswered(p) ==
  RefreshGet(p) \/ LoadMedia(p) \/ LoadFind(p) \/ LoadFails(p)

\* The notifications are delivered, an armed timeout elapses, the storage
\* calls are answered.
SpecMarks ==
  /\ InitShift /\ [][NextMarks]_vars
  /\ WF_vars(\E ev \in changes : handleSyncChange(ev))
  /\ \A p \in Tasks : WF_vars(TimerFire(p)) /\ WF_vars(PassAnswered(p))

\* A refresh pass is at the get of refreshCharacterById(c).
Refreshing(c) ==
  \E p \in Tasks :
    /\ task[p].op = "refresh" /\ task[p].pc = "rcGet"
    /\ Head(task[p].charIds) = c

\* Every handler slot of the behaviour has been used.
NoFreeSlot == \A p \in Tasks : task[p].op # "idle"

\* C39: a character id that handleSyncChange has recorded is eventually
\* refreshed by a pass (as long as a callback can still run): no mark is
\* dropped, also when the refresh of another id of the same pass fails.
C39_NoMarkLost ==
  \A c \in {CharId(1), CharId(2)} :
    (c \in pendingCharIds) ~> (Refreshing(c) \/ NoFreeSlot)
====
